---- MODULE Spec2Model ----
(***************************************************************************)
(* Money Manager Pro (dashboard.py): the amount normaliser                 *)
(* parse_amount_idr, the balance recomputation recompute_all_balances and  *)
(* the sheet reader GoogleSheetsManager.get_all_data.                      *)
(*                                                                         *)
(* Text is a sequence of one-character strings, so that strip, replace,    *)
(* split, upper and float() are computed character by character.  A float  *)
(* is the decimal m * 10^-e; with the digit counts used here every such    *)
(* value below one half of 2^53 rounds to an integer exactly as the        *)
(* nearest binary double does (a fraction of exactly one half is           *)
(* representable, any other decimal fraction is further from one half      *)
(* than the conversion error).                                             *)
(***************************************************************************)
EXTENDS Integers, Sequences, FiniteSets, TLC

VARIABLES
    amt_in,     \* the argument s of one call of parse_amount_idr
    amt_out,    \* what the call returned or raised
    amt_pc,     \* "call" before the call, "ret" after it
    vals,       \* the sheet: the 2-D grid _get_all_values_unformatted returns
    data,       \* MoneyManagerPro.data: the snapshot of the last load_data
    fetch,      \* the last fetch of load_data: "none", "ok" or "failed"
    prev_data,  \* the snapshot that was written back to the sheet (re-feed)
    led_pc,     \* "fresh", "loaded", "fed", "reloaded"
    connected,            \* GoogleSheetsManager.connected
    last_checksum,        \* GoogleSheetsManager.last_checksum
    last_sheet_checksum,  \* MoneyManagerPro._last_sheet_checksum
    parity_state,         \* MoneyManagerPro.parity_state
    parity_details_last,  \* MoneyManagerPro.parity_details_last
    c_pc,       \* the connect thread t of connect_to_gsheets
    ld,         \* load_data as run by each thread: position and locals
    pending,    \* load_data callbacks queued by self.after(0, ...)
    w_pc,       \* the watcher thread of start_realtime_sync
    w_cs,       \* the watcher's local cs
    hist,       \* history of one reload scenario (not program state)
    filtered_data,  \* MoneyManagerPro.filtered_data: the view under the filters
    wr,         \* the write handler the UI thread last ran, and what it did
    bak         \* the background thread auto_bak of start_background_tasks

syncvars ==
    <<connected, last_checksum, last_sheet_checksum, parity_state,
      parity_details_last, c_pc, ld, pending, w_pc, w_cs, hist>>

sidevars == <<wr, bak>>

vars ==
    <<amt_in, amt_out, amt_pc, vals, data, fetch, prev_data, led_pc,
      connected, last_checksum, last_sheet_checksum, parity_state,
      parity_details_last, c_pc, ld, pending, w_pc, w_cs, hist,
      filtered_data, wr, bak>>

-----------------------------------------------------------------------------
(* Bounds *)

MaxAmtLen == 4      \* longest free-form amount text enumerated
MaxRows == 2        \* most data rows of an enumerated sheet
MaxPending == 2     \* most load_data callbacks waiting in the event queue

-----------------------------------------------------------------------------
(* Text *)

DigitChars == <<"0", "1", "2", "3", "4", "5", "6", "7", "8", "9">>

Digit == {DigitChars[i] : i \in 1..10}

DigitVal(c) == (CHOOSE i \in 1..10 : DigitChars[i] = c) - 1

WS == {" "}

LowerChars == <<"a","b","c","d","e","f","g","h","i","j","k","l","m",
                "n","o","p","q","r","s","t","u","v","w","x","y","z">>

UpperChars == <<"A","B","C","D","E","F","G","H","I","J","K","L","M",
                "N","O","P","Q","R","S","T","U","V","W","X","Y","Z">>

\* str.upper(), one character
UpperChar(c) ==
    IF \E i \in 1..26 : LowerChars[i] = c
    THEN UpperChars[CHOOSE i \in 1..26 : LowerChars[i] = c]
    ELSE c

\* str.upper()
Upper(s) == [i \in 1..Len(s) |-> UpperChar(s[i])]

RECURSIVE LStrip(_)
LStrip(s) ==
    IF s # <<>> /\ Head(s) \in WS THEN LStrip(Tail(s)) ELSE s

RECURSIVE RStrip(_)
RStrip(s) ==
    IF s # <<>> /\ s[Len(s)] \in WS THEN RStrip(SubSeq(s, 1, Len(s) - 1)) ELSE s

\* str.strip()
Strip(s) == RStrip(LStrip(s))

StartsWith(s, t) == Len(s) >= Len(t) /\ SubSeq(s, 1, Len(t)) = t

EndsWith(s, t) == Len(s) >= Len(t) /\ SubSeq(s, Len(s) - Len(t) + 1, Len(s)) = t

\* str.replace(old, new) for a non-empty old: left to right, non-overlapping
RECURSIVE Replace(_, _, _)
Replace(s, old, new) ==
    IF s = <<>> THEN <<>>
    ELSE IF StartsWith(s, old)
         THEN new \o Replace(SubSeq(s, Len(old) + 1, Len(s)), old, new)
         ELSE <<Head(s)>> \o Replace(Tail(s), old, new)

\* c in s
Has(s, c) == \E i \in 1..Len(s) : s[i] = c

\* s.rfind(c), 1-based; 0 when c does not occur
RFind(s, c) ==
    IF Has(s, c) THEN CHOOSE i \in 1..Len(s) :
                        s[i] = c /\ \A j \in (i + 1)..Len(s) : s[j] # c
    ELSE 0

\* s.split(c) for a one-character separator
RECURSIVE Split(_, _)
Split(s, c) ==
    IF ~Has(s, c) THEN <<s>>
    ELSE LET i == CHOOSE k \in 1..Len(s) :
                     s[k] = c /\ \A j \in 1..(k - 1) : s[j] # c
         IN  <<SubSeq(s, 1, i - 1)>> \o Split(SubSeq(s, i + 1, Len(s)), c)

\* str.isdigit(): non-empty and decimal digits only
IsDigitStr(s) == s # <<>> /\ \A i \in 1..Len(s) : s[i] \in Digit

\* the integer a digit string writes (0 for the empty string)
RECURSIVE DigitsVal(_)
DigitsVal(s) ==
    IF s = <<>> THEN 0
    ELSE 10 * DigitsVal(SubSeq(s, 1, Len(s) - 1)) + DigitVal(s[Len(s)])

RECURSIVE Pow10(_)
Pow10(e) == IF e = 0 THEN 1 ELSE 10 * Pow10(e - 1)

-----------------------------------------------------------------------------
(* Values: Python objects that reach parse_amount_idr *)

None == [k |-> "none", m |-> 0, e |-> 0, s |-> <<>>]

\* the float or int m * 10^-e
Num(m, e) == [k |-> "num", m |-> m, e |-> e, s |-> <<>>]

NaN == [k |-> "nan", m |-> 0, e |-> 0, s |-> <<>>]

\* float('inf') (sign 1) and float('-inf') (sign -1)
Inf(sign) == [k |-> "inf", m |-> sign, e |-> 0, s |-> <<>>]

Str(s) == [k |-> "str", m |-> 0, e |-> 0, s |-> s]

\* float(s) raised ValueError
BadFloat == [k |-> "bad", m |-> 0, e |-> 0, s |-> <<>>]

\* the outcome of a call: a returned float with an integer value, or an
\* exception that left the function
Ret(v) == [raised |-> FALSE, v |-> v]

Raised == [raised |-> TRUE, v |-> 0]

NotCalled == [raised |-> FALSE, v |-> -1]

-----------------------------------------------------------------------------
(* parse_amount_idr *)

\* CONFIG['idr_decimals']
idr_decimals == 0

\* the currency tokens and the blank removed by str.replace, in this order
CurrencyTokens == << <<"R","p">>, <<"r","p">>, <<"I","D","R">>, <<"i","d","r">>, <<" ">> >>

KeptChars == Digit \cup {",", ".", "-", "(", ")"}

IsKept(ch) == ch \in KeptChars

\* _only_digits
only_digits(s) == SelectSeq(s, IsKept)

RECURSIVE StripTokens(_, _)
StripTokens(s, i) ==
    IF i > Len(CurrencyTokens) THEN s
    ELSE StripTokens(Replace(s, CurrencyTokens[i], <<>>), i + 1)

\* s.startswith("(") and s.endswith(")")
IsParenthesized(s) == StartsWith(s, <<"(">>) /\ EndsWith(s, <<")">>)

\* len(parts) == 2 and parts[1].isdigit(), parts = s.split(",")
CommaDecimalTwoDigits(parts) ==
    Len(parts) = 2 /\ IsDigitStr(parts[2]) /\ Len(parts[2]) = 2

CommaIsDecimal(parts) == Len(parts) = 2 /\ IsDigitStr(parts[2])

\* len(parts) > 1 and all(len(p) == 3 for p in parts[1:]), parts = s.split(".")
DotsNeverThousands(parts) == FALSE

DotsAreThousands(parts) ==
    Len(parts) > 1 /\ \A i \in 2..Len(parts) : Len(parts[i]) = 3

\* the decimal/thousands disambiguation
Separators(s) ==
    IF Has(s, ",") /\ Has(s, ".")
    THEN IF RFind(s, ",") > RFind(s, ".")
         THEN Replace(Replace(s, <<".">>, <<>>), <<",">>, <<".">>)
         ELSE Replace(s, <<",">>, <<>>)
    ELSE IF Has(s, ",") /\ ~Has(s, ".")
         THEN IF CommaIsDecimal(Split(s, ","))
              THEN Replace(Replace(s, <<".">>, <<>>), <<",">>, <<".">>)
              ELSE Replace(s, <<",">>, <<>>)
         ELSE IF Has(s, ".") /\ ~Has(s, ",")
              THEN IF DotsAreThousands(Split(s, "."))
                   THEN Replace(s, <<".">>, <<>>)
                   ELSE s
              ELSE s

\* float(s) on text of KeptChars: an optional '-', digits with at most one
\* '.', at least one digit; anything else raises ValueError
ParseFloat(s) ==
    LET neg   == s # <<>> /\ Head(s) = "-"
        body  == IF neg THEN Tail(s) ELSE s
        parts == Split(body, ".")
        ip    == parts[1]
        fp    == IF Len(parts) >= 2 THEN parts[2] ELSE <<>>
        ok    == /\ Len(parts) <= 2
                 /\ \A i \in 1..Len(ip) : ip[i] \in Digit
                 /\ \A i \in 1..Len(fp) : fp[i] \in Digit
                 /\ Len(ip) + Len(fp) >= 1
        m     == DigitsVal(ip \o fp)
    IN  IF ok THEN Num(IF neg THEN -m ELSE m, Len(fp)) ELSE BadFloat

\* round(val) of a finite float m * 10^-e: to nearest, ties to the even integer
PyRound(m, e) ==
    LET d == Pow10(e)
        q == m \div d
        r == m - q * d
    IN  IF 2 * r < d THEN q
        ELSE IF 2 * r > d THEN q + 1
        ELSE IF q % 2 = 0 THEN q ELSE q + 1

\* float(int(round(val))) if CONFIG['idr_decimals'] == 0 else round(val, d):
\* int() raises ValueError on NaN and OverflowError on an infinity, while
\* round(val, d) returns them; the amount is held in units of 10^-d
RoundToInt(val) ==
    IF val.k = "num" THEN Ret(PyRound(val.m * Pow10(idr_decimals), val.e))
    ELSE IF idr_decimals = 0 THEN Raised
    ELSE Ret(0)

parse_amount_idr(x) ==
    IF x.k = "none" THEN Ret(0)
    ELSE IF x.k \in {"num", "nan", "inf"} THEN RoundToInt(x)
    ELSE LET s1 == Strip(x.s) IN
         IF s1 = <<>> THEN Ret(0)
         ELSE LET s2   == only_digits(StripTokens(s1, 1))
                  neg  == IsParenthesized(s2)
                  s3   == IF neg THEN SubSeq(s2, 2, Len(s2) - 1) ELSE s2
                  f    == ParseFloat(Separators(s3))
                  val  == IF f.k = "bad" THEN Num(0, 0) ELSE f
                  sval == IF neg THEN Num(-val.m, val.e) ELSE val
              IN  RoundToInt(sval)

-----------------------------------------------------------------------------
(* The arguments enumerated for parse_amount_idr *)

SeqsUpTo(S, n) == UNION {[1..k -> S] : k \in 0..n}

AmtAlphabet == {"0", "1", "5", ",", ".", "(", ")", "-"}

FreeText == SeqsUpTo(AmtAlphabet, MaxAmtLen)

TokenText ==
    {pre \o body \o suf :
        pre \in {<<"R","p">>, <<"R","p"," ">>, <<"I","D","R">>, <<" ","r","p">>},
        body \in SeqsUpTo({"1", "5", ".", ",", "("}, MaxAmtLen - 2),
        suf \in {<<>>, <<" ","I","D","R">>}}

\* g0.g1 and g0.g1.g2 with three-digit groups g1, g2
GroupLead == UNION {[1..k -> {"1", "5"}] : k \in 1..3}

Group3 == [1..3 -> {"0", "5"}]

GroupedText ==
    {l \o <<".">> \o g : l \in GroupLead, g \in Group3}
    \cup {l \o <<".">> \o g \o <<".">> \o h : l \in GroupLead, g \in Group3, h \in Group3}

\* one comma followed by one to three digits: "1,5" "12,50" "1,234"
CommaText ==
    {l \o <<",">> \o f :
        l \in UNION {[1..k -> {"1", "2"}] : k \in 0..2},
        f \in UNION {[1..k -> {"0", "3", "5"}] : k \in 1..3}}

ExampleText ==
    { <<"R","p","1",".","2","3","4",".","5","6","7">>,
      <<"(","5","0","0",")">>,
      <<"1",",","2","3","4",".","5","6">>,
      <<"1",".","2","3","4",",","5","6">>,
      <<"1",",","2","3","4">>,
      <<"1",",","5">>,
      <<"2",",","5","0">>,
      <<"1",",","2","3","4",",","5","6","7">>,
      <<"(","1",".","2","3","4",")">>,
      <<"R","p"," ","1",".","5","0","0",".","0","0","0"," ","I","D","R">>,
      <<"a","b","c">>,
      <<" "," ">> }

NumArgs ==
    {Num(m, e) : m \in -25..25, e \in 0..1}
    \cup {Num(1234567, 0), Num(123456, 2), Num(250, 2), Num(-250, 2)}

AmtArgs ==
    {None, NaN, Inf(1), Inf(-1)} \cup NumArgs
    \cup {Str(s) : s \in FreeText \cup TokenText \cup GroupedText \cup CommaText \cup ExampleText}

-----------------------------------------------------------------------------
(* Column names, BANK_LIST, HEADERS *)

BCA == <<"B","C","A">>

Mandiri == <<"M","a","n","d","i","r","i">>

BNI == <<"B","N","I">>

BRI == <<"B","R","I">>

CimbNiaga == <<"C","i","m","b"," ","N","i","a","g","a">>

BTN == <<"B","T","N">>

Danamon == <<"D","a","n","a","m","o","n">>

DANA == <<"D","A","N","A">>

OVO == <<"O","V","O">>

GOPAY == <<"G","O","P","A","Y">>

LINKAJA == <<"L","I","N","K"," ","A","J","A">>

BANK_LIST == <<BCA, Mandiri, BNI, BRI, CimbNiaga, BTN, Danamon, DANA, OVO, GOPAY, LINKAJA>>

ColNo == <<"N","o",".">>

ColTanggal == <<"T","a","n","g","g","a","l">>

ColUser == <<"U","s","e","r"," ","I","D">>

ColBank == <<"B","a","n","k","/","E","W","a","l","l","e","t">>

ColKeterangan == <<"K","e","t","e","r","a","n","g","a","n">>

ColCredit == <<"C","r","e","d","i","t">>

ColDebit == <<"D","e","b","i","t">>

ColSaldo == <<"S","a","l","d","o"," ","A","k","h","i","r">>

HEADERS ==
    <<ColNo, ColTanggal, ColUser, ColBank, ColKeterangan, ColCredit, ColDebit, ColSaldo>> \o BANK_LIST

MONEY_COLS == <<ColCredit, ColDebit, ColSaldo>> \o BANK_LIST

\* the alternative column name get_cell accepts for a bank: "Saldo Akhir <bank>"
SaldoAkhirOf(b) == <<"S","a","l","d","o"," ","A","k","h","i","r"," ">> \o b

SYSTEM == <<"S","Y","S","T","E","M">>

SALDO_AWAL == <<"S","A","L","D","O"," ","A","W","A","L">>

Range(f) == {f[i] : i \in DOMAIN f}

BankSet == Range(BANK_LIST)

HeaderSet == Range(HEADERS)

MoneySet == Range(MONEY_COLS)

-----------------------------------------------------------------------------
(* GoogleSheetsManager.get_all_data: decoding the grid *)

NoSheet == <<>>

\* name in idx, for idx = {h: i for i, h in enumerate(header)}
InIdx(header, name) == \E i \in 1..Len(header) : header[i] = Str(name)

\* idx[name], 1-based: a repeated name keeps its last position
Idx(header, name) ==
    CHOOSE i \in 1..Len(header) :
        header[i] = Str(name) /\ \A j \in (i + 1)..Len(header) : header[j] # Str(name)

\* get_cell(r, name, "")
get_cell(header, r, name) ==
    IF InIdx(header, name) /\ Idx(header, name) <= Len(r)
    THEN r[Idx(header, name)]
    ELSE IF /\ name \in BankSet
            /\ InIdx(header, SaldoAkhirOf(name))
            /\ Idx(header, SaldoAkhirOf(name)) <= Len(r)
         THEN r[Idx(header, SaldoAkhirOf(name))]
         ELSE Str(<<>>)

\* int(text): optional sign, digits, surrounding blanks allowed
IsIntText(s) ==
    LET b == Strip(s)
        d == IF b # <<>> /\ Head(b) \in {"-", "+"} THEN Tail(b) ELSE b
    IN  IsDigitStr(d)

IntOfText(s) ==
    LET b == Strip(s)
    IN  IF Head(b) = "-" THEN -DigitsVal(Tail(b))
        ELSE IF Head(b) = "+" THEN DigitsVal(Tail(b)) ELSE DigitsVal(b)

\* int(x) of a finite float: truncation toward zero
Trunc(m, e) ==
    IF m >= 0 THEN m \div Pow10(e) ELSE -((-m) \div Pow10(e))

\* int(item.get("No.", 0) or 0), 0 when int() raises
CoerceNo(v) ==
    IF v.k = "num" THEN Trunc(v.m, v.e)
    ELSE IF v.k = "str" /\ IsIntText(v.s) THEN IntOfText(v.s)
    ELSE 0

\* one row of norm: every HEADERS column, money columns through
\* parse_amount_idr (kept with its outcome, so that a raise is seen)
Decoded(header, r) ==
    [h \in HeaderSet |->
        IF h \in MoneySet THEN parse_amount_idr(get_cell(header, r, h))
        ELSE get_cell(header, r, h)]

DecodeRaises(header, r) == \E h \in MoneySet : Decoded(header, r)[h].raised

NormRow(header, r) ==
    LET d == Decoded(header, r)
    IN  [h \in HeaderSet |->
            IF h \in MoneySet THEN d[h].v
            ELSE IF h = ColNo THEN CoerceNo(d[h])
            ELSE d[h]]

-----------------------------------------------------------------------------
(* recompute_all_balances *)

RECURSIVE IntDigits(_)
IntDigits(n) ==
    IF n < 10 THEN <<DigitChars[n + 1]>>
    ELSE IntDigits(n \div 10) \o <<DigitChars[(n % 10) + 1]>>

\* str(x) of a cell: text is itself, an integer is its decimal digits (the
\* text columns of the enumerated sheets hold text or integers)
PyStr(v) ==
    IF v.k = "str" THEN v.s
    ELSE IF v.m < 0 THEN <<"-">> \o IntDigits(-Trunc(v.m, v.e))
    ELSE IntDigits(Trunc(v.m, v.e))

\* running = {b: 0.0 for b in BANK_LIST}
InitialRunningFromFirstRow(df) ==
    [b \in BankSet |-> IF df = <<>> THEN 0 ELSE df[1][b]]

InitialRunning(df) == [b \in BankSet |-> 0]

\* user == "SYSTEM" and bank.upper() == "SALDO AWAL"
is_system_init(r) ==
    /\ Upper(Strip(PyStr(r[ColUser]))) = SYSTEM
    /\ Upper(Strip(PyStr(r[ColBank]))) = SALDO_AWAL

\* running[b] = float(val) if pd.notna(val) else 0.0
ResetAccumulates(old, val) == old + val

ResetBalance(old, val) == val

\* credit - debit
DeltaSignSlip(credit, debit) == credit + debit

Delta(credit, debit) == credit - debit

\* if bank in BANK_LIST: running[bank] += (credit - debit)
ApplyUnknownToFirstBank(running, bank, credit, debit) ==
    [running EXCEPT ![IF bank \in BankSet THEN bank ELSE BANK_LIST[1]] =
                        @ + Delta(credit, debit)]

ApplyMutation(running, bank, credit, debit) ==
    IF bank \in BankSet
    THEN [running EXCEPT ![bank] = @ + Delta(credit, debit)]
    ELSE running

RECURSIVE SumOver(_, _)
SumOver(f, S) ==
    IF S = {} THEN 0
    ELSE LET x == CHOOSE y \in S : TRUE IN f[x] + SumOver(f, S \ {x})

\* sum(running.values())
SaldoOfFirstBank(running) == running[BANK_LIST[1]]

SaldoAkhir(running) == SumOver(running, BankSet)

\* the running table after row r
Step(running, r) ==
    IF is_system_init(r)
    THEN [b \in BankSet |-> ResetBalance(running[b], r[b])]
    ELSE ApplyMutation(running, Strip(PyStr(r[ColBank])), r[ColCredit], r[ColDebit])

\* the emitted record: the row with its balance columns overwritten
Emit(r, running) ==
    [h \in HeaderSet |->
        IF h \in BankSet THEN running[h]
        ELSE IF h = ColSaldo THEN SaldoAkhir(running)
        ELSE r[h]]

RECURSIVE Fold(_, _, _)
Fold(df, i, running) ==
    IF i > Len(df) THEN <<>>
    ELSE LET nxt == Step(running, df[i])
         IN  <<Emit(df[i], nxt)>> \o Fold(df, i + 1, nxt)

recompute_all_balances(df) == Fold(df, 1, InitialRunning(df))

\* df["No."] = range(1, len(df)+1)
KeepNumbers(df) == df

Renumber(df) == [k \in 1..Len(df) |-> [df[k] EXCEPT ![ColNo] = k]]

\* get_all_data on a fetched grid; <<>> is the empty DataFrame, also what the
\* except branch returns
get_all_data(grid) ==
    IF Len(grid) < 2 THEN <<>>
    ELSE LET header == grid[1]
             rows   == SubSeq(grid, 2, Len(grid))
         IN  IF \E i \in 1..Len(rows) : DecodeRaises(header, rows[i])
             THEN <<>>
             ELSE Renumber(recompute_all_balances(
                      [i \in 1..Len(rows) |-> NormRow(header, rows[i])]))

-----------------------------------------------------------------------------
(* The synchronisation state as the constructors leave it *)

\* a thread that is not inside load_data
NoFetch == [ok |-> FALSE, grid |-> <<>>]
NotLoading == [pc |-> "idle", got |-> NoFetch, pgot |-> NoFetch]

Threads == {"conn", "ui"}

HistOff ==
    [on |-> FALSE, edited |-> FALSE, detected |-> FALSE, done |-> FALSE, further |-> 0,
     retry |-> "off"]

\* no write handler has run: nothing appended, nothing reported
NoWrite ==
    [op |-> "none", pc |-> "idle", n |-> 0, nfields |-> 0, appends |-> <<>>,
     report |-> "none", before |-> <<>>]

\* start_background_tasks has not been called
BakOff == [pc |-> "off", seen |-> <<>>, pgot |-> NoFetch]

\* GoogleSheetsManager.__init__ and MoneyManagerPro.__init__, before the
\* connect thread has run
SyncNotStarted ==
    /\ connected = FALSE
    /\ last_checksum = None
    /\ last_sheet_checksum = None
    /\ parity_state = "Unknown"
    /\ parity_details_last = <<>>
    /\ c_pc = "connect"
    /\ ld = [t \in Threads |-> NotLoading]
    /\ pending = 0
    /\ w_pc = "off"
    /\ w_cs = None
    /\ hist = HistOff
    /\ wr = NoWrite
    /\ bak = BakOff

-----------------------------------------------------------------------------
(* One call of parse_amount_idr on an enumerated argument *)

InitParse ==
    /\ amt_in \in AmtArgs
    /\ amt_out = NotCalled
    /\ amt_pc = "call"
    /\ vals = NoSheet
    /\ data = <<>>
    /\ filtered_data = <<>>
    /\ fetch = "none"
    /\ prev_data = <<>>
    /\ led_pc = "fresh"
    /\ SyncNotStarted

ParseAmount ==
    /\ amt_pc = "call"
    /\ amt_out' = parse_amount_idr(amt_in)
    /\ amt_pc' = "ret"
    /\ UNCHANGED <<amt_in, vals, data, filtered_data, fetch, prev_data, led_pc>>
    /\ UNCHANGED syncvars
    /\ UNCHANGED sidevars

NextParse == ParseAmount

SpecParse == InitParse /\ [][NextParse]_vars

-----------------------------------------------------------------------------
(* The sheets enumerated: a header row and up to MaxRows data rows *)

BalsZero == [b \in BankSet |-> Num(0, 0)]

BalsBlank == [b \in BankSet |-> Str(<<>>)]

\* an opening balance row: a number, a formatted text, an unparsable text
BalsOpening ==
    [b \in BankSet |->
        IF b = BCA THEN Num(1000, 0)
        ELSE IF b = Mandiri THEN Str(<<"R","p","5","0","0">>)
        ELSE IF b = BNI THEN Str(<<"a","b","c">>)
        ELSE Str(<<>>)]

BalsSecond ==
    [b \in BankSet |->
        IF b = BCA THEN Num(300, 0)
        ELSE IF b = DANA THEN Num(50, 0)
        ELSE IF b = BTN THEN Str(<<"n","/","a">>)
        ELSE Num(0, 0)]

\* balance cells left over from an earlier state of the sheet
BalsStale ==
    [b \in BankSet |->
        IF b = BCA THEN Num(77, 0) ELSE IF b = OVO THEN Num(5, 0) ELSE Num(0, 0)]

\* a row in the sheet's column order
MkRow(no, user, bank, note, credit, debit, saldo, bals) ==
    <<no, Str(<<"0","1","/","0","2","/","2","0","2","5">>), user, bank, note, credit, debit, saldo>>
        \o [i \in 1..Len(BANK_LIST) |-> bals[BANK_LIST[i]]]

RowReset ==
    MkRow(Num(1, 0), Str(<<"S","Y","S","T","E","M">>), Str(<<"S","A","L","D","O"," ","A","W","A","L">>),
          Str(<<"n","1">>), Num(0, 0), Num(0, 0), Num(0, 0), BalsOpening)

RowResetLower ==
    MkRow(Num(7, 0), Str(<<" ","s","y","s","t","e","m"," ">>), Str(<<"S","a","l","d","o"," ","A","w","a","l">>),
          Str(<<"n","2">>), Num(700, 0), Num(20, 0), Num(9, 0), BalsSecond)

RowCreditBCA ==
    MkRow(Num(2, 0), Str(<<"b","u","d","i">>), Str(<<"B","C","A">>),
          Str(<<"n","3">>), Num(500, 0), Num(0, 0), Num(0, 0), BalsZero)

RowDebitBCA ==
    MkRow(Num(3, 0), Str(<<"b","u","d","i">>), Str(<<"B","C","A">>),
          Str(<<"n","4">>), Num(0, 0), Num(200, 0), Num(123, 0), BalsStale)

RowMandiriText ==
    MkRow(Str(<<"x">>), Str(<<"a","n","i">>), Str(<<"M","a","n","d","i","r","i">>),
          Str(<<"n","5">>), Str(<<"R","p","1",".","0","0","0">>), Num(250, 0), Str(<<>>), BalsBlank)

RowUnknownBank ==
    MkRow(Num(4, 0), Str(<<"a","n","i">>), Str(<<"X","Y","Z">>),
          Str(<<"n","6">>), Num(900, 0), Num(0, 0), Num(0, 0), BalsStale)

RowLowerBank ==
    MkRow(Num(4, 0), Str(<<"a","n","i">>), Str(<<"b","c","a">>),
          Str(<<"n","7">>), Num(0, 0), Num(100, 0), Num(0, 0), BalsZero)

RowPaddedGopay ==
    MkRow(Str(<<>>), Str(<<"b","u","d","i">>), Str(<<" ","G","O","P","A","Y"," ">>),
          Str(<<"n","8">>), Num(40, 0), Num(0, 0), Num(0, 0), BalsBlank)

RowSystemNotInit ==
    MkRow(Num(5, 0), Str(<<"S","Y","S","T","E","M">>), Str(<<"B","C","A">>),
          Str(<<"n","9">>), Num(10, 0), Num(0, 0), Num(0, 0), BalsZero)

RowParenCredit ==
    MkRow(Num(6, 0), Str(<<"b","u","d","i">>), Str(<<"D","A","N","A">>),
          Str(<<"n","0">>), Str(<<"(","3","0","0",")">>), Str(<<"1",",","5">>), Num(0, 0), BalsZero)

\* a row that ends before the money columns
RowShort == SubSeq(RowCreditBCA, 1, 5)

RowChoices ==
    {RowReset,
     RowResetLower,
     RowCreditBCA,
     RowDebitBCA,
     RowMandiriText,
     RowUnknownBank,
     RowLowerBank,
     RowPaddedGopay,
     RowSystemNotInit,
     RowParenCredit,
     RowShort}

HeaderRow == [i \in 1..Len(HEADERS) |-> Str(HEADERS[i])]

\* the bank columns under their "Saldo Akhir <bank>" names
HeaderNewStyle ==
    [i \in 1..Len(HEADERS) |->
        IF HEADERS[i] \in BankSet THEN Str(SaldoAkhirOf(HEADERS[i])) ELSE Str(HEADERS[i])]

\* a sheet that has lost its bank columns after the first two
HeaderShort == SubSeq(HeaderRow, 1, 10)

HeaderChoices == {HeaderRow, HeaderNewStyle, HeaderShort}

Sheets ==
    {NoSheet} \cup
    {<<h>> \o rows : h \in HeaderChoices, rows \in SeqsUpTo(RowChoices, MaxRows)}

-----------------------------------------------------------------------------
(* load_data, and the snapshot written back as a sheet *)

\* the emitted records taken as raw rows under HEADERS
Materialize(df) ==
    <<HeaderRow>> \o
    [k \in 1..Len(df) |->
        [i \in 1..Len(HEADERS) |->
            IF HEADERS[i] \in MoneySet \/ HEADERS[i] = ColNo
            THEN Num(df[k][HEADERS[i]], 0)
            ELSE df[k][HEADERS[i]]]]

InitLedger ==
    /\ vals \in Sheets
    /\ data = <<>>
    /\ filtered_data = <<>>
    /\ fetch = "none"
    /\ prev_data = <<>>
    /\ led_pc = "fresh"
    /\ amt_in = None
    /\ amt_out = NotCalled
    /\ amt_pc = "call"
    /\ SyncNotStarted

\* load_data with a fetch that succeeds: self.data = get_all_data().copy()
LoadData ==
    /\ led_pc \in {"fresh", "fed"}
    /\ data' = get_all_data(vals)
    /\ filtered_data' = data'
    /\ fetch' = "ok"
    /\ led_pc' = IF led_pc = "fresh" THEN "loaded" ELSE "reloaded"
    /\ UNCHANGED <<vals, prev_data, amt_in, amt_out, amt_pc>>
    /\ UNCHANGED syncvars
    /\ UNCHANGED sidevars

\* load_data with a fetch that raises: get_all_data returns the empty frame
LoadDataFetchFails ==
    /\ led_pc \in {"fresh", "fed"}
    /\ data' = <<>>
    /\ filtered_data' = data'
    /\ fetch' = "failed"
    /\ led_pc' = IF led_pc = "fresh" THEN "loaded" ELSE "reloaded"
    /\ UNCHANGED <<vals, prev_data, amt_in, amt_out, amt_pc>>
    /\ UNCHANGED syncvars
    /\ UNCHANGED sidevars

\* the snapshot becomes the sheet: recompute is fed its own output
WriteBack ==
    /\ led_pc = "loaded"
    /\ fetch = "ok"
    /\ prev_data' = data
    /\ vals' = Materialize(data)
    /\ led_pc' = "fed"
    /\ UNCHANGED <<data, filtered_data, fetch, amt_in, amt_out, amt_pc>>
    /\ UNCHANGED syncvars
    /\ UNCHANGED sidevars

NextLedger == LoadData \/ LoadDataFetchFails \/ WriteBack

SpecLedger == InitLedger /\ [][NextLedger]_vars

-----------------------------------------------------------------------------
(* _compute_checksum and get_sheet_checksum *)

\* a decimal m * 10^-e as json.dumps writes it
RECURSIVE ZeroPad(_, _)
ZeroPad(s, n) == IF Len(s) >= n THEN s ELSE ZeroPad(<<"0">> \o s, n)

JsonNumber(m, e) ==
    LET a == IF m < 0 THEN -m ELSE m
        sign == IF m < 0 THEN <<"-">> ELSE <<>>
    IN  IF e = 0 THEN sign \o IntDigits(a)
        ELSE sign \o IntDigits(a \div Pow10(e)) \o <<".">>
                  \o ZeroPad(IntDigits(a % Pow10(e)), e)

\* a text cell between quotes, backslash and quote escaped
JsonText(s) ==
    <<"\"">> \o Replace(Replace(s, <<"\\">>, <<"\\", "\\">>), <<"\"">>, <<"\\", "\"">>)
             \o <<"\"">>

JsonCell(v) == IF v.k = "num" THEN JsonNumber(v.m, v.e) ELSE JsonText(v.s)

\* ",".join(parts), for separators=(",", ":")
RECURSIVE JoinComma(_)
JoinComma(parts) ==
    IF parts = <<>> THEN <<>>
    ELSE IF Len(parts) = 1 THEN parts[1]
    ELSE parts[1] \o <<",">> \o JoinComma(Tail(parts))

JsonList(parts) == <<"[">> \o JoinComma(parts) \o <<"]">>

\* json.dumps(values_2d, ensure_ascii=False, separators=(",", ":"))
json_dumps(values_2d) ==
    JsonList([i \in 1..Len(values_2d) |->
                 JsonList([j \in 1..Len(values_2d[i]) |-> JsonCell(values_2d[i][j])])])

\* hashlib.sha1(packed).hexdigest().  The digest is not computed: a token
\* stands for the text it digests, so two tokens are equal exactly when the
\* packed texts are equal.
sha1_hexdigest(packed) == <<"s", "h", "a", "1", ":">> \o packed

compute_checksum(values_2d) == Str(sha1_hexdigest(json_dumps(values_2d)))

\* what one call of _get_all_values_unformatted gives: the grid, or a raise
Fetched(grid) == [ok |-> TRUE, grid |-> grid]
FetchRaised == NoFetch

\* get_sheet_checksum: the token of the fetched grid, None when the fetch
\* raises
get_sheet_checksum(got) == IF got.ok THEN compute_checksum(got.grid) ELSE None

-----------------------------------------------------------------------------
(* ensure_headers, and the contents the sheet takes under the watcher *)

RowInit ==
    MkRow(Num(1, 0), Str(SYSTEM), Str(SALDO_AWAL),
          Str(<<"I","n","i","s","i","a","l","i","s","a","s","i">>),
          Num(0, 0), Num(0, 0), Num(0, 0), BalsZero)

\* ensure_headers: row 1 becomes HEADERS, a sheet without records gets the
\* opening row
ensure_headers(grid) ==
    LET headed ==
            IF grid # <<>> /\ grid[1] = HeaderRow THEN grid
            ELSE IF grid # <<>> /\ grid[1] # <<>> THEN <<HeaderRow>> \o Tail(grid)
            ELSE <<HeaderRow>> \o grid
    IN  IF Len(headed) < 2 THEN headed \o <<RowInit>> ELSE headed

ContentA == <<HeaderRow, RowInit>>
ContentB == <<HeaderRow, RowInit, RowCreditBCA>>

SyncContents == {ContentA, ContentB}

-----------------------------------------------------------------------------
(* check_parity_against_api *)

\* one line of diffs; api and ui are the two numbers the line prints
DiffLine(line, bank, api, ui) == [line |-> line, bank |-> bank, api |-> api, ui |-> ui]

LineRows(api, ui) == DiffLine("Jumlah baris berbeda", <<>>, api, ui)
LineCredit == DiffLine("Total Credit berbeda", <<>>, 0, 0)
LineDebit == DiffLine("Total Debit berbeda", <<>>, 0, 0)
LineSaldo(api, ui) == DiffLine("Saldo Akhir terakhir berbeda", <<>>, api, ui)
LineBank(b, api, ui) == DiffLine("terakhir berbeda", b, api, ui)
LineAllMatch == DiffLine("Semua cocok (Dashboard = API).", <<>>, 0, 0)
\* f"Gagal cek parity: {e}", e in the slot of the interpolated text
LineFailedBare(e) == DiffLine("Gagal cek parity", <<>>, 0, 0)

LineFailed(e) == DiffLine("Gagal cek parity", e, 0, 0)

\* abs(float(a) - float(b)) > 1e-6, on whole amounts
DiffersByMoreThanOne(a, b) == a - b > 1 \/ b - a > 1

Differs(a, b) == a # b

\* len(df_raw), the rows after the header
ApiRowCountWithHeader(grid, df_raw) == Len(grid)

ApiRowCount(grid, df_raw) == Len(df_raw)

\* df[col].sum()
RECURSIVE ColumnSum(_, _)
ColumnSum(df, col) ==
    IF df = <<>> THEN 0 ELSE df[1][col] + ColumnSum(Tail(df), col)

\* the grid decodes without parse_amount_idr raising
GridRaises(grid) ==
    /\ Len(grid) >= 2
    /\ \E i \in 2..Len(grid) : DecodeRaises(grid[1], grid[i])

\* str(e) of what the fetch raised, and of what int(round(val)) raised in
\* parse_amount_idr: "cannot convert float NaN to integer" (ValueError),
\* "cannot convert float infinity to integer" (OverflowError)
ErrFetch == <<"f","e","t","c","h">>

ErrNaN == <<"N","a","N">>

ErrInfinity == <<"i","n","f","i","n","i","t","y">>

\* the first cell at which the decoding loop raises: rows in order, HEADERS
\* in order
FirstRaise(grid) ==
    LET money == SelectSeq(HEADERS, LAMBDA h : h \in MoneySet)
        cells == [n \in 1..((Len(grid) - 1) * Len(money)) |->
                    get_cell(grid[1], grid[2 + ((n - 1) \div Len(money))],
                             money[1 + ((n - 1) % Len(money))])]
    IN  Head(SelectSeq(cells, LAMBDA v : parse_amount_idr(v).raised))

\* the exception the try block of check_parity_against_api ends with
ParityError(got) ==
    IF ~got.ok THEN ErrFetch
    ELSE IF FirstRaise(got.grid).k = "nan" THEN ErrNaN ELSE ErrInfinity

\* the diffs list, for a source of at least one data row
Diffs(grid, df_raw, cache) ==
    LET rows ==
            IF ApiRowCount(grid, df_raw) # Len(cache)
            THEN <<LineRows(ApiRowCount(grid, df_raw), Len(cache))>> ELSE <<>>
        last_api == df_raw[Len(df_raw)]
        last_ui == cache[Len(cache)]
        credit ==
            IF Differs(ColumnSum(df_raw, ColCredit), ColumnSum(cache, ColCredit))
            THEN <<LineCredit>> ELSE <<>>
        debit ==
            IF Differs(ColumnSum(df_raw, ColDebit), ColumnSum(cache, ColDebit))
            THEN <<LineDebit>> ELSE <<>>
        saldo ==
            IF Differs(last_api[ColSaldo], last_ui[ColSaldo])
            THEN <<LineSaldo(last_api[ColSaldo], last_ui[ColSaldo])>> ELSE <<>>
        banks ==
            LET off == SelectSeq(BANK_LIST, LAMBDA b : Differs(last_api[b], last_ui[b]))
            IN  [i \in 1..Len(off) |-> LineBank(off[i], last_api[off[i]], last_ui[off[i]])]
    IN  IF df_raw # <<>> /\ cache # <<>>
        THEN rows \o credit \o debit \o saldo \o banks
        ELSE rows

\* self.data after a call: lines 921-976 read it (953-965) and never assign it
CacheResyncedByParity(cache, got) ==
    IF got.ok THEN get_all_data(got.grid) ELSE cache

CacheAfterParity(cache, got) == cache

\* the verdict and details one call leaves, given what its fetch returned,
\* the snapshot it read and the details held before
check_parity_against_api(got, cache, details) ==
    IF ~got.ok \/ GridRaises(got.grid)
    THEN [state |-> "Unknown", details |-> <<LineFailed(ParityError(got))>>]
    ELSE IF Len(got.grid) < 2
    THEN [state |-> "Unknown", details |-> details]
    ELSE LET diffs == Diffs(got.grid, get_all_data(got.grid), cache)
         IN  IF diffs # <<>>
             THEN [state |-> "Drift", details |-> diffs]
             ELSE [state |-> "OK", details |-> <<LineAllMatch>>]

-----------------------------------------------------------------------------
(* The connect thread, load_data, the watcher and the UI thread *)

\* gsheets.sheet is set: open_sheet has returned True
SheetOpen == c_pc \in {"load", "done"}

InitSync ==
    /\ vals \in SyncContents \cup {NoSheet}
    /\ data = <<>>
    /\ filtered_data = <<>>
    /\ fetch = "none"
    /\ prev_data = <<>>
    /\ led_pc = "fresh"
    /\ amt_in = None
    /\ amt_out = NotCalled
    /\ amt_pc = "call"
    /\ SyncNotStarted

ledgervars == <<amt_in, amt_out, amt_pc, fetch, prev_data, led_pc>>

\* GoogleSheetsManager.connect returns True
Connect ==
    /\ c_pc = "connect"
    /\ connected' = TRUE
    /\ c_pc' = "open"
    /\ UNCHANGED <<vals, data, filtered_data, last_checksum, last_sheet_checksum, parity_state,
                   parity_details_last, ld, pending, w_pc, w_cs, hist>>
    /\ UNCHANGED ledgervars
    /\ UNCHANGED sidevars

\* connect raises inside: connected = False, the thread reports and ends
ConnectFails ==
    /\ c_pc = "connect"
    /\ connected' = FALSE
    /\ c_pc' = "failed"
    /\ UNCHANGED <<vals, data, filtered_data, last_checksum, last_sheet_checksum, parity_state,
                   parity_details_last, ld, pending, w_pc, w_cs, hist>>
    /\ UNCHANGED ledgervars
    /\ UNCHANGED sidevars

\* open_sheet returns True; the thread enters load_data
OpenSheet ==
    /\ c_pc = "open"
    /\ vals' = ensure_headers(vals)
    /\ c_pc' = "load"
    /\ ld' = [ld EXCEPT !["conn"].pc = "fetch"]
    /\ UNCHANGED <<data, filtered_data, connected, last_checksum, last_sheet_checksum, parity_state,
                   parity_details_last, pending, w_pc, w_cs, hist>>
    /\ UNCHANGED ledgervars
    /\ UNCHANGED sidevars

OpenSheetFails ==
    /\ c_pc = "open"
    /\ c_pc' = "failed"
    /\ UNCHANGED <<vals, data, filtered_data, connected, last_checksum, last_sheet_checksum,
                   parity_state, parity_details_last, ld, pending, w_pc, w_cs, hist>>
    /\ UNCHANGED ledgervars
    /\ UNCHANGED sidevars

\* start_realtime_sync, once the thread's load_data has returned
StartWatcher ==
    /\ c_pc = "load"
    /\ ld["conn"].pc = "idle"
    /\ w_pc' = "sleep"
    /\ c_pc' = "done"
    /\ UNCHANGED <<vals, data, filtered_data, connected, last_checksum, last_sheet_checksum,
                   parity_state, parity_details_last, ld, pending, w_cs, hist>>
    /\ UNCHANGED ledgervars
    /\ UNCHANGED sidevars

\* the stage of the scenario "a refresh's fetch fails, then a whole watcher
\* tick fetches successfully, the sheet unchanged", kept in hist.retry
RetryNext(r, ev) ==
    IF r = "off" THEN r
    ELSE IF ev = "fetch_failed" THEN "failed"
    ELSE IF ev = "returned" THEN (IF r = "failed" THEN "returned" ELSE r)
    ELSE IF ev = "wake" THEN (IF r = "returned" THEN "woke" ELSE r)
    ELSE IF ev = "tick_failed" THEN (IF r = "woke" THEN "returned" ELSE r)
    ELSE IF ev = "tick_done" THEN (IF r = "woke" THEN "ticked" ELSE r)
    ELSE IF r = "armed" THEN r ELSE "void"

Retry(ev) == [hist EXCEPT !.retry = RetryNext(hist.retry, ev)]

\* get_all_data: the fetch returns the grid
LoadFetch(t) ==
    /\ ld[t].pc = "fetch"
    /\ SheetOpen
    /\ ld' = [ld EXCEPT ![t].got = Fetched(vals),
                        ![t].pc = IF GridRaises(vals) THEN "settok" ELSE "setgs"]
    /\ UNCHANGED <<vals, data, filtered_data, connected, last_checksum, last_sheet_checksum,
                   parity_state, parity_details_last, c_pc, pending, w_pc, w_cs, hist>>
    /\ UNCHANGED ledgervars
    /\ UNCHANGED sidevars

\* get_all_data: the fetch raises, the except branch returns the empty frame
LoadFetchFails(t) ==
    /\ ld[t].pc = "fetch"
    /\ ld' = [ld EXCEPT ![t].got = FetchRaised, ![t].pc = "settok"]
    /\ UNCHANGED <<vals, data, filtered_data, connected, last_checksum, last_sheet_checksum,
                   parity_state, parity_details_last, c_pc, pending, w_pc, w_cs>>
    /\ hist' = Retry("fetch_failed")
    /\ UNCHANGED ledgervars
    /\ UNCHANGED sidevars

\* get_all_data: self.last_checksum = self._compute_checksum(vals)
LoadSetChecksum(t) ==
    /\ ld[t].pc = "setgs"
    /\ last_checksum' = compute_checksum(ld[t].got.grid)
    /\ ld' = [ld EXCEPT ![t].pc = "settok"]
    /\ UNCHANGED <<vals, data, filtered_data, connected, last_sheet_checksum,
                   parity_state, parity_details_last, c_pc, pending, w_pc, w_cs, hist>>
    /\ UNCHANGED ledgervars
    /\ UNCHANGED sidevars

\* self._last_sheet_checksum = self.gsheets.last_checksum
LoadSetToken(t) ==
    /\ ld[t].pc = "settok"
    /\ last_sheet_checksum' = last_checksum
    /\ ld' = [ld EXCEPT ![t].pc = "swap"]
    /\ UNCHANGED <<vals, data, filtered_data, connected, last_checksum,
                   parity_state, parity_details_last, c_pc, pending, w_pc, w_cs, hist>>
    /\ UNCHANGED ledgervars
    /\ UNCHANGED sidevars

\* self.data = ...: the attribute is rebound to a new frame in one store, the
\* frame it named before is not written
AssignFirstRowInPlace(old, df) ==
    IF old # <<>> /\ df # <<>> THEN <<df[1]>> \o Tail(old) ELSE df

AssignSnapshot(old, df) == df

\* self.data = df.copy() if not df.empty else pd.DataFrame(columns=HEADERS)
\* self.filtered_data = self.data.copy()
LoadSwap(t) ==
    /\ ld[t].pc = "swap"
    /\ data' = AssignSnapshot(data, IF ld[t].got.ok THEN get_all_data(ld[t].got.grid) ELSE <<>>)
    /\ filtered_data' = data'
    /\ ld' = [ld EXCEPT ![t].got = NoFetch, ![t].pc = "pfetch"]
    /\ UNCHANGED <<vals, connected, last_checksum, last_sheet_checksum,
                   parity_state, parity_details_last, c_pc, pending, w_pc, w_cs, hist>>
    /\ UNCHANGED ledgervars
    /\ UNCHANGED sidevars

\* check_parity_against_api(silent=True): its fetch returns the grid
LoadParityFetch(t) ==
    /\ ld[t].pc = "pfetch"
    /\ SheetOpen
    /\ ld' = [ld EXCEPT ![t].pgot = Fetched(vals), ![t].pc = "pcmp"]
    /\ UNCHANGED <<vals, data, filtered_data, connected, last_checksum, last_sheet_checksum,
                   parity_state, parity_details_last, c_pc, pending, w_pc, w_cs, hist>>
    /\ UNCHANGED ledgervars
    /\ UNCHANGED sidevars

LoadParityFetchFails(t) ==
    /\ ld[t].pc = "pfetch"
    /\ ld' = [ld EXCEPT ![t].pgot = FetchRaised, ![t].pc = "pcmp"]
    /\ UNCHANGED <<vals, data, filtered_data, connected, last_checksum, last_sheet_checksum,
                   parity_state, parity_details_last, c_pc, pending, w_pc, w_cs, hist>>
    /\ UNCHANGED ledgervars
    /\ UNCHANGED sidevars

\* check_parity_against_api: the comparison and the verdict; load_data returns,
\* and a write handler that called it shows its message of success
LoadParityVerdict(t) ==
    /\ ld[t].pc = "pcmp"
    /\ \E r \in {check_parity_against_api(ld[t].pgot, data, parity_details_last)} :
           /\ parity_state' = r.state
           /\ parity_details_last' = r.details
    /\ ld' = [ld EXCEPT ![t] = NotLoading]
    /\ hist' = IF t = "ui" /\ hist.on THEN [hist EXCEPT !.done = TRUE]
               ELSE Retry("returned")
    /\ data' = CacheAfterParity(data, ld[t].pgot)
    /\ wr' = IF t = "ui" /\ wr.pc = "loading"
             THEN [wr EXCEPT !.pc = "done", !.report = "ok"] ELSE wr
    /\ UNCHANGED <<vals, filtered_data, connected, last_checksum, last_sheet_checksum,
                   c_pc, pending, w_pc, w_cs, bak>>
    /\ UNCHANGED ledgervars

\* the menu command "Reload dari Google Sheets": load_data on the UI thread
ManualReload ==
    /\ ld["ui"].pc = "idle"
    /\ ld' = [ld EXCEPT !["ui"].pc = "fetch"]
    /\ UNCHANGED <<vals, data, filtered_data, connected, last_checksum, last_sheet_checksum,
                   parity_state, parity_details_last, c_pc, pending, w_pc, w_cs, hist>>
    /\ UNCHANGED ledgervars
    /\ UNCHANGED sidevars

\* the event loop runs one queued self.after(0, self.load_data)
RunPending ==
    /\ ld["ui"].pc = "idle"
    /\ pending > 0
    /\ pending' = pending - 1
    /\ ld' = [ld EXCEPT !["ui"].pc = "fetch"]
    /\ hist' = IF hist.on /\ hist.done
               THEN [hist EXCEPT !.further = hist.further + 1] ELSE hist
    /\ UNCHANGED <<vals, data, filtered_data, connected, last_checksum, last_sheet_checksum,
                   parity_state, parity_details_last, c_pc, w_pc, w_cs>>
    /\ UNCHANGED ledgervars
    /\ UNCHANGED sidevars

\* while True: the body starts over at time.sleep, whatever cs was
LoopEndsOnFailure(cs) == IF cs = None THEN "dead" ELSE "sleep"

LoopBack(cs) == "sleep"

\* if cs and cs != self._last_sheet_checksum
TokenChangedAlways(cs, last) == cs # None

TokenChanged(cs, last) == cs # None /\ cs # last

\* time.sleep(CONFIG['auto_refresh_seconds']) returns
WatcherWake ==
    /\ w_pc = "sleep"
    /\ w_pc' = "fetch"
    /\ UNCHANGED <<vals, data, filtered_data, connected, last_checksum, last_sheet_checksum,
                   parity_state, parity_details_last, c_pc, ld, pending, w_cs>>
    /\ hist' = Retry("wake")
    /\ UNCHANGED ledgervars
    /\ UNCHANGED sidevars

\* cs = self.gsheets.get_sheet_checksum(), the fetch returning the grid
WatcherFetch ==
    /\ w_pc = "fetch"
    /\ w_cs' = get_sheet_checksum(Fetched(vals))
    /\ w_pc' = "cmp"
    /\ UNCHANGED <<vals, data, filtered_data, connected, last_checksum, last_sheet_checksum,
                   parity_state, parity_details_last, c_pc, ld, pending, hist>>
    /\ UNCHANGED ledgervars
    /\ UNCHANGED sidevars

\* get_sheet_checksum with a fetch that raises: cs = None
WatcherFetchFails ==
    /\ w_pc = "fetch"
    /\ w_cs' = get_sheet_checksum(FetchRaised)
    /\ w_pc' = "cmp"
    /\ UNCHANGED <<vals, data, filtered_data, connected, last_checksum, last_sheet_checksum,
                   parity_state, parity_details_last, c_pc, ld, pending>>
    /\ hist' = Retry("tick_failed")
    /\ UNCHANGED ledgervars
    /\ UNCHANGED sidevars

\* the if: the token is compared with the one last stored
WatcherCompare ==
    /\ w_pc = "cmp"
    /\ IF TokenChanged(w_cs, last_sheet_checksum)
       THEN /\ w_pc' = "write"
            /\ w_cs' = w_cs
            /\ hist' = IF hist.on /\ hist.edited /\ ~hist.done
                       THEN [hist EXCEPT !.detected = TRUE] ELSE hist
       ELSE /\ w_pc' = LoopBack(w_cs)
            /\ w_cs' = None
            /\ hist' = IF w_cs # None THEN Retry("tick_done") ELSE hist
    /\ UNCHANGED <<vals, data, filtered_data, connected, last_checksum, last_sheet_checksum,
                   parity_state, parity_details_last, c_pc, ld, pending>>
    /\ UNCHANGED ledgervars
    /\ UNCHANGED sidevars

\* self._last_sheet_checksum = cs; self.after(0, self.load_data)
WatcherSchedule ==
    /\ w_pc = "write"
    /\ pending < MaxPending
    /\ last_sheet_checksum' = w_cs
    /\ pending' = pending + 1
    /\ w_pc' = LoopBack(w_cs)
    /\ w_cs' = None
    /\ UNCHANGED <<vals, data, filtered_data, connected, last_checksum,
                   parity_state, parity_details_last, c_pc, ld>>
    /\ hist' = Retry("tick_done")
    /\ UNCHANGED ledgervars
    /\ UNCHANGED sidevars

\* someone else edits the sheet
EditStore ==
    /\ ~hist.on
    /\ vals' \in SyncContents \ {vals}
    /\ UNCHANGED <<data, filtered_data, connected, last_checksum, last_sheet_checksum, parity_state,
                   parity_details_last, c_pc, ld, pending, w_pc, w_cs, hist>>
    /\ UNCHANGED ledgervars
    /\ UNCHANGED sidevars

LoadStep(t) ==
    \/ LoadFetch(t)
    \/ LoadFetchFails(t)
    \/ LoadSetChecksum(t)
    \/ LoadSetToken(t)
    \/ LoadSwap(t)
    \/ LoadParityFetch(t)
    \/ LoadParityFetchFails(t)
    \/ LoadParityVerdict(t)

NextSync ==
    \/ Connect
    \/ ConnectFails
    \/ OpenSheet
    \/ OpenSheetFails
    \/ StartWatcher
    \/ \E t \in Threads : LoadStep(t)
    \/ ManualReload
    \/ RunPending
    \/ WatcherWake
    \/ WatcherFetch
    \/ WatcherFetchFails
    \/ WatcherCompare
    \/ WatcherSchedule
    \/ EditStore

SpecSync == InitSync /\ [][NextSync]_vars

-----------------------------------------------------------------------------
(* One manual reload with the watcher running and a single edit of the sheet *)

\* connected and loaded, the watcher asleep, nothing queued; the user has just
\* chosen "Reload dari Google Sheets"
InitCoalesce ==
    /\ vals \in SyncContents
    /\ data = get_all_data(vals)
    /\ filtered_data = data
    /\ fetch = "none"
    /\ prev_data = <<>>
    /\ led_pc = "fresh"
    /\ amt_in = None
    /\ amt_out = NotCalled
    /\ amt_pc = "call"
    /\ connected = TRUE
    /\ last_checksum = compute_checksum(vals)
    /\ last_sheet_checksum = compute_checksum(vals)
    /\ parity_state = "OK"
    /\ parity_details_last = <<LineAllMatch>>
    /\ c_pc = "done"
    /\ ld = [t \in Threads |->
                IF t = "ui" THEN [NotLoading EXCEPT !.pc = "fetch"] ELSE NotLoading]
    /\ pending = 0
    /\ w_pc = "sleep"
    /\ w_cs = None
    /\ hist = [HistOff EXCEPT !.on = TRUE]
    /\ wr = NoWrite
    /\ bak = BakOff

\* the one edit, made while the manual reload is running
EditDuringReload ==
    /\ hist.on
    /\ ~hist.edited
    /\ ~hist.done
    /\ ld["ui"].pc # "idle"
    /\ vals' \in SyncContents \ {vals}
    /\ hist' = [hist EXCEPT !.edited = TRUE]
    /\ UNCHANGED <<data, filtered_data, connected, last_checksum, last_sheet_checksum, parity_state,
                   parity_details_last, c_pc, ld, pending, w_pc, w_cs>>
    /\ UNCHANGED ledgervars
    /\ UNCHANGED sidevars

\* every fetch succeeds; the UI thread runs nothing but the reload and the
\* callbacks the watcher queues
NextCoalesce ==
    \/ EditDuringReload
    \/ LoadFetch("ui")
    \/ LoadSetChecksum("ui")
    \/ LoadSetToken("ui")
    \/ LoadSwap("ui")
    \/ LoadParityFetch("ui")
    \/ LoadParityVerdict("ui")
    \/ RunPending
    \/ WatcherWake
    \/ WatcherFetch
    \/ WatcherCompare
    \/ WatcherSchedule

SpecCoalesce == InitCoalesce /\ [][NextCoalesce]_vars

-----------------------------------------------------------------------------
(* After the connect thread: the UI thread and the watcher, one edit of the *)
(* sheet, fetches that may fail                                             *)

\* connected and loaded, the watcher asleep, the UI thread in its event loop
InitAfterLoad ==
    /\ vals \in SyncContents
    /\ data = get_all_data(vals)
    /\ filtered_data = data
    /\ fetch = "none"
    /\ prev_data = <<>>
    /\ led_pc = "fresh"
    /\ amt_in = None
    /\ amt_out = NotCalled
    /\ amt_pc = "call"
    /\ connected = TRUE
    /\ last_checksum = compute_checksum(vals)
    /\ last_sheet_checksum = compute_checksum(vals)
    /\ parity_state = "OK"
    /\ parity_details_last = <<LineAllMatch>>
    /\ c_pc = "done"
    /\ ld = [t \in Threads |-> NotLoading]
    /\ pending = 0
    /\ w_pc = "sleep"
    /\ w_cs = None
    /\ hist = HistOff
    /\ wr = NoWrite
    /\ bak = BakOff

\* someone else edits the sheet, once
EditOnce ==
    /\ ~hist.on
    /\ ~hist.edited
    /\ vals' \in SyncContents \ {vals}
    /\ hist' = [hist EXCEPT !.edited = TRUE, !.retry = RetryNext(hist.retry, "edit")]
    /\ UNCHANGED <<data, filtered_data, connected, last_checksum, last_sheet_checksum, parity_state,
                   parity_details_last, c_pc, ld, pending, w_pc, w_cs>>
    /\ UNCHANGED ledgervars
    /\ UNCHANGED sidevars

NextAfterLoad ==
    \/ EditOnce
    \/ ManualReload
    \/ RunPending
    \/ LoadStep("ui")
    \/ WatcherWake
    \/ WatcherFetch
    \/ WatcherFetchFails
    \/ WatcherCompare
    \/ WatcherSchedule

SpecAfterLoad == InitAfterLoad /\ [][NextAfterLoad]_vars

\* the same, with the stages of a failed refresh and the tick after it recorded
InitRetry ==
    /\ vals \in SyncContents
    /\ data = get_all_data(vals)
    /\ filtered_data = data
    /\ fetch = "none"
    /\ prev_data = <<>>
    /\ led_pc = "fresh"
    /\ amt_in = None
    /\ amt_out = NotCalled
    /\ amt_pc = "call"
    /\ connected = TRUE
    /\ last_checksum = compute_checksum(vals)
    /\ last_sheet_checksum = compute_checksum(vals)
    /\ parity_state = "OK"
    /\ parity_details_last = <<LineAllMatch>>
    /\ c_pc = "done"
    /\ ld = [t \in Threads |-> NotLoading]
    /\ pending = 0
    /\ w_pc = "sleep"
    /\ w_cs = None
    /\ hist = [HistOff EXCEPT !.retry = "armed"]
    /\ wr = NoWrite
    /\ bak = BakOff

SpecRetry == InitRetry /\ [][NextAfterLoad]_vars

-----------------------------------------------------------------------------
(* One call of check_parity_against_api on an enumerated cache and source *)

RowUnknownBank901 ==
    MkRow(Num(4, 0), Str(<<"a","n","i">>), Str(<<"X","Y","Z">>),
          Str(<<"n","6">>), Num(901, 0), Num(0, 0), Num(0, 0), BalsStale)

ParityRows == {RowReset, RowDebitBCA, RowUnknownBank, RowUnknownBank901}

ParitySheets ==
    {NoSheet} \cup {<<HeaderRow>> \o rows : rows \in SeqsUpTo(ParityRows, MaxRows)}

\* the snapshots an earlier load_data can have left
ParityCaches == {get_all_data(s) : s \in ParitySheets}

InitParity ==
    /\ vals \in ParitySheets
    /\ data \in ParityCaches
    /\ filtered_data = data
    /\ fetch = "none"
    /\ prev_data = <<>>
    /\ led_pc = "fresh"
    /\ amt_in = None
    /\ amt_out = NotCalled
    /\ amt_pc = "call"
    /\ connected = TRUE
    /\ last_checksum = None
    /\ last_sheet_checksum = None
    /\ parity_state = "Unknown"
    /\ parity_details_last = <<>>
    /\ c_pc = "done"
    /\ ld = [t \in Threads |-> NotLoading]
    /\ pending = 0
    /\ w_pc = "off"
    /\ w_cs = None
    /\ hist = HistOff
    /\ wr = NoWrite
    /\ bak = BakOff

\* check_parity_against_api whose fetch returns the sheet
ParityCheck ==
    /\ fetch = "none"
    /\ fetch' = "ok"
    /\ \E r \in {check_parity_against_api(Fetched(vals), data, parity_details_last)} :
           /\ parity_state' = r.state
           /\ parity_details_last' = r.details
    /\ data' = CacheAfterParity(data, Fetched(vals))
    /\ UNCHANGED <<vals, filtered_data, prev_data, led_pc, amt_in, amt_out, amt_pc>>
    /\ UNCHANGED <<connected, last_checksum, last_sheet_checksum, c_pc, ld, pending,
                   w_pc, w_cs, hist>>
    /\ UNCHANGED sidevars

\* check_parity_against_api whose fetch raises
ParityCheckFetchFails ==
    /\ fetch = "none"
    /\ fetch' = "failed"
    /\ \E r \in {check_parity_against_api(FetchRaised, data, parity_details_last)} :
           /\ parity_state' = r.state
           /\ parity_details_last' = r.details
    /\ data' = CacheAfterParity(data, FetchRaised)
    /\ UNCHANGED <<vals, filtered_data, prev_data, led_pc, amt_in, amt_out, amt_pc>>
    /\ UNCHANGED <<connected, last_checksum, last_sheet_checksum, c_pc, ld, pending,
                   w_pc, w_cs, hist>>
    /\ UNCHANGED sidevars

NextParity == ParityCheck \/ ParityCheckFetchFails

SpecParity == InitParity /\ [][NextParity]_vars

-----------------------------------------------------------------------------
(* check_parity_against_api on sheets with a cell that makes the decoding raise *)

\* a numeric cell that is an infinity, and one that is not a number
RowCreditInf ==
    MkRow(Num(5, 0), Str(<<"b","u","d","i">>), Str(<<"B","C","A">>),
          Str(<<"n","a">>), Inf(1), Num(0, 0), Num(0, 0), BalsZero)

RowDebitNaN ==
    MkRow(Num(6, 0), Str(<<"a","n","i">>), Str(<<"D","A","N","A">>),
          Str(<<"n","b">>), Num(10, 0), NaN, Num(0, 0), BalsZero)

RaisingRows == {RowReset, RowDebitBCA, RowCreditInf, RowDebitNaN}

RaisingSheets ==
    {NoSheet} \cup {<<HeaderRow>> \o rows : rows \in SeqsUpTo(RaisingRows, MaxRows)}

InitParityRaising ==
    /\ vals \in RaisingSheets
    /\ data \in {get_all_data(g) : g \in RaisingSheets}
    /\ filtered_data = data
    /\ fetch = "none"
    /\ prev_data = <<>>
    /\ led_pc = "fresh"
    /\ amt_in = None
    /\ amt_out = NotCalled
    /\ amt_pc = "call"
    /\ connected = TRUE
    /\ last_checksum = None
    /\ last_sheet_checksum = None
    /\ parity_state \in {"Unknown", "OK"}
    /\ parity_details_last = <<>>
    /\ c_pc = "done"
    /\ ld = [t \in Threads |-> NotLoading]
    /\ pending = 0
    /\ w_pc = "off"
    /\ w_cs = None
    /\ hist = HistOff
    /\ wr = NoWrite
    /\ bak = BakOff

SpecParityRaising == InitParityRaising /\ [][NextParity]_vars

-----------------------------------------------------------------------------
(* append_data and the write handlers of the UI thread *)

MaxWrites == 1  \* write handlers the user starts in one run

\* row_clean.append(float(v)), and parse_amount_idr(str(v)) when float raises
\* (the texts enumerated hold digits, '.', '-' and letters only); as_float is
\* float(v) of a text, parsed is parse_amount_idr(str(v))
CleanWith(v, as_float, parsed) ==
    IF v.k \in {"num", "nan", "inf"} THEN Ret(v)
    ELSE IF v.k = "str" /\ as_float.k # "bad" THEN Ret(as_float)
    ELSE IF v.k = "none" THEN Ret(Num(0, 0))
    ELSE IF parsed.raised THEN Raised
    ELSE Ret(Num(parsed.v, 0))

CleanMoney(v) == CleanWith(v, ParseFloat(Strip(v.s)), parse_amount_idr(v))

AppendFailed == [ok |-> FALSE, row |-> <<>>]

\* the loop over row_list: each value of a money column cleaned
RowClean(row_list) ==
    [i \in 1..Len(row_list) |->
        IF HEADERS[i] \in MoneySet THEN CleanMoney(row_list[i]) ELSE Ret(row_list[i])]

\* append_data past the loop: a raise inside it, or append_row raising, is
\* caught and gives False
AppendClean(cleaned, api_ok) ==
    IF \E i \in 1..Len(cleaned) : cleaned[i].raised THEN AppendFailed
    ELSE IF ~api_ok THEN AppendFailed
    ELSE [ok |-> TRUE, row |-> [i \in 1..Len(cleaned) |-> cleaned[i].v]]

\* append_data: what it returns and the row it hands to sheet.append_row;
\* api_ok is whether append_row returns
append_data(row_list, api_ok) ==
    IF Len(row_list) > Len(HEADERS) THEN AppendFailed
    ELSE AppendClean(RowClean(row_list), api_ok)

\* the sheet after the call
Stored(grid, r) == IF r.ok THEN Append(grid, r.row) ELSE grid

\* per_bank: the balances of the last row of self.data, the bank moved
PerBank(cache, bank, credit, debit) ==
    [b \in BankSet |->
        (IF cache # <<>> THEN cache[Len(cache)][b] ELSE 0)
        + (IF b = bank THEN credit - debit ELSE 0)]

\* new_no
NewNo(cache) == IF cache # <<>> THEN cache[Len(cache)][ColNo] + 1 ELSE 1

\* [new_no, now, user_id, bank, str(desc), credit, debit, new_total] + per_bank
RowOf(no, user, bank, desc, credit, debit, per_bank) ==
    MkRow(Num(no, 0), Str(user), Str(bank), Str(desc),
          Num(credit, 0), Num(debit, 0), Num(SumOver(per_bank, BankSet), 0),
          [b \in BankSet |-> Num(per_bank[b], 0)])

NewRow(cache, user, bank, desc, credit, debit) ==
    RowOf(NewNo(cache), user, bank, desc, credit, debit,
          PerBank(cache, bank, credit, debit))

\* _append_transaction_row, the audit log left out
append_transaction_row(cache, user, bank, credit, debit, desc, api_ok) ==
    append_data(NewRow(cache, user, bank, desc, credit, debit), api_ok)

\* save_bal: the row of opening balances
BalanceRow(cache, per_bank) ==
    RowOf(NewNo(cache), SYSTEM, SALDO_AWAL,
          <<"P","e","n","y","e","s","u","a","i","a","n"," ",
            "s","a","l","d","o"," ","a","w","a","l">>, 0, 0, per_bank)

\* one call of append_data as the handler sees it: its result, and what the
\* handler does next
Appended(ok, next) == [ok |-> ok, next |-> next]

\* the handler returns after an error box
Refused(op) ==
    [op |-> op, pc |-> "done", n |-> wr.n + 1, nfields |-> 0, appends |-> <<>>,
     report |-> "error", before |-> vals]

WriteIdle == ld["ui"].pc = "idle" /\ wr.n < MaxWrites

writeframe ==
    <<connected, last_checksum, last_sheet_checksum, parity_state,
      parity_details_last, c_pc, pending, w_pc, w_cs, hist, data, filtered_data, bak>>

\* the handler goes on into load_data, or has returned
Proceeds(into_load) ==
    ld' = [ld EXCEPT !["ui"].pc = IF into_load THEN "fetch" ELSE "idle"]

Users == {<<>>, <<"b","u","d","i">>}

Accounts == {<<>>, BCA, DANA, <<"X","Y","Z">>}

AmountTexts == {<<>>, <<"0">>, <<"5","0","0">>, <<"R","p","1",".","2","0","0">>}

\* save_transaction
SaveTransaction(user_id, bank, ttype, amt_str, api_ok) ==
    /\ WriteIdle
    /\ \E amount \in {parse_amount_idr(Str(amt_str)).v} :
         IF user_id = <<>> \/ bank = <<>> \/ amt_str = <<>> \/ amount <= 0
         THEN /\ wr' = Refused("save")
              /\ vals' = vals
              /\ Proceeds(FALSE)
         ELSE \E r \in {append_data(
                          NewRow(data, user_id, bank, <<"n">>,
                                 IF ttype = "Pemasukan" THEN amount ELSE 0,
                                 IF ttype = "Pengeluaran" THEN amount ELSE 0),
                          api_ok)} :
               /\ vals' = Stored(vals, r)
               /\ wr' = [op |-> "save", pc |-> IF r.ok THEN "loading" ELSE "done",
                         n |-> wr.n + 1, nfields |-> Len(HEADERS),
                         appends |-> <<Appended(r.ok, IF r.ok THEN "load_data" ELSE "showerror")>>,
                         report |-> IF r.ok THEN "none" ELSE "error",
                         before |-> vals]
               /\ Proceeds(r.ok)
    /\ UNCHANGED writeframe
    /\ UNCHANGED ledgervars

\* set_initial_balance.save_bal, the entries of two banks filled in
SaveBal(bca_str, dana_str, api_ok) ==
    /\ WriteIdle
    /\ \E r \in {append_data(
                    BalanceRow(data,
                        [b \in BankSet |->
                            parse_amount_idr(Str(IF b = BCA THEN bca_str
                                                 ELSE IF b = DANA THEN dana_str
                                                 ELSE <<"0">>)).v]),
                    api_ok)} :
           /\ vals' = Stored(vals, r)
           /\ wr' = [op |-> "save_bal", pc |-> IF r.ok THEN "loading" ELSE "done",
                     n |-> wr.n + 1, nfields |-> Len(HEADERS),
                     appends |-> <<Appended(r.ok, IF r.ok THEN "load_data" ELSE "showerror")>>,
                     report |-> IF r.ok THEN "none" ELSE "error",
                     before |-> vals]
           /\ Proceeds(r.ok)
    /\ UNCHANGED writeframe
    /\ UNCHANGED ledgervars

\* open_transfer_dialog.do_transfer: two calls of _append_transaction_row,
\* each building its row from self.data and dropping what append_data returns
DoTransfer(src, dst, amt_str, ok1, ok2) ==
    /\ WriteIdle
    /\ \E a \in {parse_amount_idr(Str(amt_str)).v} :
         IF src = <<>> \/ dst = <<>> \/ src = dst \/ a <= 0
         THEN /\ wr' = Refused("transfer")
              /\ vals' = vals
              /\ Proceeds(FALSE)
         ELSE \E r \in {[i \in 1..2 |->
                          append_transaction_row(data, SYSTEM,
                              IF i = 1 THEN src ELSE dst,
                              IF i = 1 THEN 0 ELSE a,
                              IF i = 1 THEN a ELSE 0,
                              <<"t">>,
                              IF i = 1 THEN ok1 ELSE ok2)]} :
               /\ vals' = Stored(Stored(vals, r[1]), r[2])
               /\ wr' = [op |-> "transfer", pc |-> "loading",
                         n |-> wr.n + 1, nfields |-> Len(HEADERS),
                         appends |-> <<Appended(r[1].ok, "append_data"),
                                       Appended(r[2].ok, "load_data")>>,
                         report |-> "none",
                         before |-> vals]
               /\ Proceeds(TRUE)
    /\ UNCHANGED writeframe
    /\ UNCHANGED ledgervars

\* rows handed to append_data directly: the schema's length, shorter, longer
AppendArgs ==
    {NewRow(<<>>, <<"b","u","d","i">>, BCA, <<"n">>, 500, 0),
     SubSeq(NewRow(<<>>, <<"b","u","d","i">>, BCA, <<"n">>, 500, 0), 1, 6),
     NewRow(<<>>, <<"b","u","d","i">>, BCA, <<"n">>, 500, 0) \o <<Str(<<"x">>)>>,
     <<>>}

\* one call of GoogleSheetsManager.append_data
AppendData(row_list, api_ok) ==
    /\ WriteIdle
    /\ \E r \in {append_data(row_list, api_ok)} :
           /\ vals' = Stored(vals, r)
           /\ wr' = [op |-> "append_data", pc |-> "done",
                     n |-> wr.n + 1, nfields |-> Len(row_list),
                     appends |-> <<Appended(r.ok, "return")>>,
                     report |-> IF r.ok THEN "ok" ELSE "error",
                     before |-> vals]
    /\ Proceeds(FALSE)
    /\ UNCHANGED writeframe
    /\ UNCHANGED ledgervars

InitWrite ==
    /\ vals \in {ContentA, <<HeaderRow>>}
    /\ data = get_all_data(vals)
    /\ filtered_data = data
    /\ fetch = "none"
    /\ prev_data = <<>>
    /\ led_pc = "fresh"
    /\ amt_in = None
    /\ amt_out = NotCalled
    /\ amt_pc = "call"
    /\ connected = TRUE
    /\ last_checksum = compute_checksum(vals)
    /\ last_sheet_checksum = compute_checksum(vals)
    /\ parity_state = IF Len(vals) >= 2 THEN "OK" ELSE "Unknown"
    /\ parity_details_last = IF Len(vals) >= 2 THEN <<LineAllMatch>> ELSE <<>>
    /\ c_pc = "done"
    /\ ld = [t \in Threads |-> NotLoading]
    /\ pending = 0
    /\ w_pc = "off"
    /\ w_cs = None
    /\ hist = HistOff
    /\ wr = NoWrite
    /\ bak = BakOff

NextWrite ==
    \/ \E u \in Users, b \in Accounts, a \in AmountTexts, ok \in BOOLEAN :
           \E ttype \in {"Pemasukan", "Pengeluaran"} : SaveTransaction(u, b, ttype, a, ok)
    \/ \E x \in AmountTexts, y \in AmountTexts, ok \in BOOLEAN : SaveBal(x, y, ok)
    \/ \E s1 \in Accounts \cap (BankSet \cup {<<>>}), d \in Accounts \cap (BankSet \cup {<<>>}) :
           \E a \in AmountTexts, ok1 \in BOOLEAN, ok2 \in BOOLEAN : DoTransfer(s1, d, a, ok1, ok2)
    \/ \E row \in AppendArgs, ok \in BOOLEAN : AppendData(row, ok)
    \/ LoadStep("ui")

SpecWrite == InitWrite /\ [][NextWrite]_vars

-----------------------------------------------------------------------------
(* The background thread auto_bak reading the snapshot while the UI thread *)
(* reloads it                                                              *)

\* two contents that differ in every data row
ContentOld == <<HeaderRow, RowReset, RowDebitBCA>>

ContentNew == <<HeaderRow, RowCreditBCA, RowUnknownBank>>

BackgroundContents == {ContentOld, ContentNew}

InitBackground ==
    /\ vals \in BackgroundContents
    /\ data = get_all_data(vals)
    /\ filtered_data = data
    /\ fetch = "none"
    /\ prev_data = <<>>
    /\ led_pc = "fresh"
    /\ amt_in = None
    /\ amt_out = NotCalled
    /\ amt_pc = "call"
    /\ connected = TRUE
    /\ last_checksum = compute_checksum(vals)
    /\ last_sheet_checksum = compute_checksum(vals)
    /\ parity_state = "OK"
    /\ parity_details_last = <<LineAllMatch>>
    /\ c_pc = "done"
    /\ ld = [t \in Threads |-> NotLoading]
    /\ pending = 0
    /\ w_pc = "off"
    /\ w_cs = None
    /\ hist = HistOff
    /\ wr = NoWrite
    /\ bak = [BakOff EXCEPT !.pc = "sleep"]

bakframe ==
    <<vals, connected, last_checksum, last_sheet_checksum, c_pc, ld, pending,
      w_pc, w_cs, hist, filtered_data, wr>>

\* time.sleep(CONFIG['auto_save_interval']) returns
BakWake ==
    /\ bak.pc = "sleep"
    /\ bak' = [bak EXCEPT !.pc = "test"]
    /\ UNCHANGED <<data, parity_state, parity_details_last>>
    /\ UNCHANGED bakframe
    /\ UNCHANGED ledgervars

\* if not self.data.empty: one read of self.data
BakTest ==
    /\ bak.pc = "test"
    /\ bak' = [bak EXCEPT !.seen = data,
                          !.pc = IF data # <<>> THEN "backup" ELSE "sleep"]
    /\ UNCHANGED <<data, parity_state, parity_details_last>>
    /\ UNCHANGED bakframe
    /\ UNCHANGED ledgervars

\* self.backup.create_backup(self.data): a second read of self.data
BakBackup ==
    /\ bak.pc = "backup"
    /\ bak' = [bak EXCEPT !.seen = data, !.pc = "pfetch"]
    /\ UNCHANGED <<data, parity_state, parity_details_last>>
    /\ UNCHANGED bakframe
    /\ UNCHANGED ledgervars

\* self.check_parity_against_api(silent=True): its fetch
BakParityFetch ==
    /\ bak.pc = "pfetch"
    /\ bak' = [bak EXCEPT !.pgot = Fetched(vals), !.pc = "pcmp"]
    /\ UNCHANGED <<data, parity_state, parity_details_last>>
    /\ UNCHANGED bakframe
    /\ UNCHANGED ledgervars

BakParityFetchFails ==
    /\ bak.pc = "pfetch"
    /\ bak' = [bak EXCEPT !.pgot = FetchRaised, !.pc = "pcmp"]
    /\ UNCHANGED <<data, parity_state, parity_details_last>>
    /\ UNCHANGED bakframe
    /\ UNCHANGED ledgervars

\* the comparison with self.data as it is then, and the verdict
BakParityVerdict ==
    /\ bak.pc = "pcmp"
    /\ \E r \in {check_parity_against_api(bak.pgot, data, parity_details_last)} :
           /\ parity_state' = r.state
           /\ parity_details_last' = r.details
    /\ data' = CacheAfterParity(data, bak.pgot)
    /\ bak' = [bak EXCEPT !.seen = data, !.pgot = NoFetch, !.pc = "sleep"]
    /\ UNCHANGED bakframe
    /\ UNCHANGED ledgervars

\* someone else replaces the content of the sheet
EditContent ==
    /\ vals' \in BackgroundContents \ {vals}
    /\ UNCHANGED <<data, filtered_data, connected, last_checksum, last_sheet_checksum,
                   parity_state, parity_details_last, c_pc, ld, pending, w_pc, w_cs, hist>>
    /\ UNCHANGED ledgervars
    /\ UNCHANGED sidevars

NextBackground ==
    \/ EditContent
    \/ ManualReload
    \/ LoadStep("ui")
    \/ BakWake
    \/ BakTest
    \/ BakBackup
    \/ BakParityFetch
    \/ BakParityFetchFails
    \/ BakParityVerdict

SpecBackground == InitBackground /\ [][NextBackground]_vars

-----------------------------------------------------------------------------
(* Claims about parse_amount_idr, checked under SpecParse *)

Returned == amt_pc = "ret"

IsText == amt_in.k = "str"

DigitsOf(s) == SelectSeq(s, LAMBDA ch : ch \in Digit)

NotComma(ch) == ch # ","

\* the text as it stands before the separator rules: stripped, currency
\* tokens and foreign characters removed, enclosing parentheses taken off
Cleaned(s) ==
    LET c == only_digits(StripTokens(Strip(s), 1))
    IN  IF IsParenthesized(c) THEN SubSeq(c, 2, Len(c) - 1) ELSE c

\* C7: parse_amount_idr never raises, whatever it is given (None, a number,
\* text), and returns zero when the cleaned text is no decimal number.
C7_NeverFails ==
    Returned =>
        /\ ~amt_out.raised
        /\ (IsText /\ ParseFloat(Separators(Cleaned(amt_in.s))) = BadFloat)
              => amt_out = Ret(0)

StrRp1234567 == <<"R","p","1",".","2","3","4",".","5","6","7">>

StrParen500 == <<"(","5","0","0",")">>

Str1234d56 == <<"1",",","2","3","4",".","5","6">>

TokenWraps ==
    { [pre |-> <<"R","p">>, suf |-> <<>>],
      [pre |-> <<"R","p"," ">>, suf |-> <<>>],
      [pre |-> <<"I","D","R">>, suf |-> <<>>],
      [pre |-> <<" ","r","p">>, suf |-> <<>>],
      [pre |-> <<"R","p">>, suf |-> <<" ","I","D","R">>] }

SmallDigitStr == UNION {[1..k -> {"1", "5", "0"}] : k \in 1..(MaxAmtLen - 2)}

\* C8: "Rp1.234.567" is 1234567, "(500)" is -500, "1,234.56" is 1235; a
\* currency token around digits is dropped, digits in parentheses are
\* negated, dots between three-digit groups are thousands separators.
C8_Examples ==
    (Returned /\ IsText) =>
        /\ amt_in.s = StrRp1234567 => amt_out = Ret(1234567)
        /\ amt_in.s = StrParen500 => amt_out = Ret(-500)
        /\ amt_in.s = Str1234d56 => amt_out = Ret(1235)
        /\ \A w \in TokenWraps : \A d \in SmallDigitStr :
              amt_in.s = w.pre \o d \o w.suf => amt_out = Ret(DigitsVal(d))
        /\ \A d \in SmallDigitStr :
              amt_in.s = <<"(">> \o d \o <<")">> => amt_out = Ret(-DigitsVal(d))
        /\ amt_in.s \in GroupedText => amt_out = Ret(DigitsVal(DigitsOf(amt_in.s)))
        /\ amt_in.s = <<"1",".","2","3","4",",","5","6">> => amt_out = Ret(1235)
        /\ amt_in.s = <<"(","1",".","2","3","4",")">> => amt_out = Ret(-1234)

C8_Witness ==
    Returned /\ amt_in = Str(StrRp1234567) /\ amt_out = Ret(1234567)

\* the argument's value is an integer plus exactly one half
IsHalf(f) == f.k = "num" /\ 2 * (f.m % Pow10(f.e)) = Pow10(f.e)

\* the float the call rounds: the number itself, or the text's value
RoundedValue ==
    IF amt_in.k = "str"
    THEN LET c == only_digits(StripTokens(Strip(amt_in.s), 1))
             f == ParseFloat(Separators(Cleaned(amt_in.s)))
         IN  IF f.k = "num" /\ IsParenthesized(c) THEN Num(-f.m, f.e) ELSE f
    ELSE amt_in

\* C9: with precision 0 a value with a fractional part of exactly one half
\* is rounded to the next higher integer, for numbers and for text.
C9_RoundsHalfUp ==
    (Returned /\ IsHalf(RoundedValue) /\ RoundedValue.m >= 0) =>
        amt_out = Ret((RoundedValue.m \div Pow10(RoundedValue.e)) + 1)

\* text of digits and commas with exactly one comma: what precedes it and
\* what follows it
CommaAt(c) == CHOOSE i \in 1..Len(c) : c[i] = ","

BeforeComma(c) == SubSeq(c, 1, CommaAt(c) - 1)

AfterComma(c) == SubSeq(c, CommaAt(c) + 1, Len(c))

CommaCount(c) == Cardinality({i \in 1..Len(c) : c[i] = ","})

\* the value of the cleaned text c with the enclosing parentheses' sign
Signed(s, f) ==
    LET v == IF f.k = "bad" THEN Num(0, 0) ELSE f
    IN  IF IsParenthesized(only_digits(StripTokens(Strip(s), 1)))
        THEN Num(-v.m, v.e) ELSE v

CommaOnly == IsText /\ Has(amt_in.s, ",") /\ ~Has(amt_in.s, ".")

\* C10 as stated: in text with ',' and no '.', the comma is the decimal
\* separator only when exactly two digits follow it; otherwise every comma
\* is removed ("1,234" gives 1234, "1,5" gives 15).
C10_TwoDigitsOnly ==
    (Returned /\ CommaOnly) =>
        LET c == Cleaned(amt_in.s)
        IN  IF CommaCount(c) = 1 /\ IsDigitStr(AfterComma(c)) /\ Len(AfterComma(c)) = 2
            THEN amt_out = RoundToInt(Signed(amt_in.s,
                              ParseFloat(BeforeComma(c) \o <<".">> \o AfterComma(c))))
            ELSE amt_out = RoundToInt(Signed(amt_in.s,
                              ParseFloat(SelectSeq(c, NotComma))))

\* C10 amended: the comma is the decimal separator whenever the cleaned text
\* has exactly one comma and one or more digits, and nothing else, follow
\* it; in every other case every comma is removed ("1,234" gives 1, "1,5"
\* gives 2, "1,234,567" gives 1234567).
C10_AnyDigitsAfterSingleComma ==
    (Returned /\ CommaOnly) =>
        LET c == Cleaned(amt_in.s)
        IN  /\ IF CommaCount(c) = 1 /\ IsDigitStr(AfterComma(c))
               THEN amt_out = RoundToInt(Signed(amt_in.s,
                                 ParseFloat(BeforeComma(c) \o <<".">> \o AfterComma(c))))
               ELSE amt_out = RoundToInt(Signed(amt_in.s,
                                 ParseFloat(SelectSeq(c, NotComma))))
            /\ amt_in.s = <<"1",",","2","3","4">> => amt_out = Ret(1)
            /\ amt_in.s = <<"1",",","5">> => amt_out = Ret(2)
            /\ amt_in.s = <<"1",",","2","3","4",",","5","6","7">> => amt_out = Ret(1234567)

C10_Witness ==
    Returned /\ amt_in = Str(<<"1",",","2","3","4">>) /\ amt_out = Ret(1)

-----------------------------------------------------------------------------
(* Claims about recompute_all_balances and get_all_data, under SpecLedger *)

\* a load has fetched the sheet and stored its snapshot
Loaded == led_pc \in {"loaded", "reloaded"} /\ fetch = "ok"

\* the number of data rows of the sheet
NRows == IF Len(vals) = 0 THEN 0 ELSE Len(vals) - 1

\* the cell of data row i under column h
CellAt(i, h) == get_cell(vals[1], vals[i + 1], h)

\* the amount a money cell of data row i decodes to
AmountAt(i, h) == parse_amount_idr(CellAt(i, h)).v

\* data row i carries the reset sentinel: actor SYSTEM, account SALDO AWAL
IsReset(i) ==
    /\ Upper(Strip(PyStr(CellAt(i, ColUser)))) = SYSTEM
    /\ Upper(Strip(PyStr(CellAt(i, ColBank)))) = SALDO_AWAL

\* the account named by data row i
Account(i) == Strip(PyStr(CellAt(i, ColBank)))

\* column h of the record before record i; zero before the first record
Prev(i, h) == IF i = 1 THEN 0 ELSE data[i - 1][h]

\* text that holds no digit cannot be an amount
Unparsable(cell) == cell.k = "str" /\ DigitsOf(cell.s) = <<>>

\* C1: in every emitted record the aggregate 'Saldo Akhir' is the sum of the
\* record's balances over all accounts of BANK_LIST.
C1_SaldoIsSum ==
    Loaded =>
        \A k \in 1..Len(data) :
            data[k][ColSaldo] =
                data[k][BCA] + data[k][Mandiri] + data[k][BNI] + data[k][BRI]
                + data[k][CimbNiaga] + data[k][BTN] + data[k][Danamon]
                + data[k][DANA] + data[k][OVO] + data[k][GOPAY] + data[k][LINKAJA]

C1_Witness ==
    /\ Loaded
    /\ \E k \in 1..Len(data) :
          /\ data[k][BCA] # 0
          /\ data[k][Mandiri] # 0
          /\ data[k][ColSaldo] = data[k][BCA] + data[k][Mandiri]

\* C2: recomputing the emitted records, taken as raw rows with their balance
\* columns, gives the same snapshot again.
C2_Idempotent ==
    (led_pc = "reloaded" /\ fetch = "ok") => data = prev_data

C2_Witness ==
    /\ led_pc = "reloaded"
    /\ fetch = "ok"
    /\ Len(data) >= 2
    /\ data = prev_data
    /\ data[1][BCA] # 0
    /\ data[2][BCA] # data[1][BCA]

\* C3: a reset record sets every account's balance to the value of the row's
\* own field for that account, zero when the field is missing or is no
\* amount, whatever the balances before it and whatever its credit and debit.
C3_ResetOverrides ==
    Loaded =>
        \A i \in 1..Len(data) :
            IsReset(i) =>
                \A b \in BankSet :
                    /\ data[i][b] = AmountAt(i, b)
                    /\ Unparsable(CellAt(i, b)) => data[i][b] = 0

C3_Witness ==
    /\ Loaded
    /\ Len(data) >= 2
    /\ IsReset(2)
    /\ data[1][BCA] # 0
    /\ data[2][BCA] # 0
    /\ data[2][BCA] # data[1][BCA]
    /\ AmountAt(2, ColCredit) # 0
    /\ data[1][Mandiri] # 0
    /\ data[2][Mandiri] = 0
    /\ \E b \in BankSet : Unparsable(CellAt(2, b)) /\ CellAt(2, b) # Str(<<>>)

\* C4: a non-reset record whose account (blanks around it dropped) is in
\* BANK_LIST changes that account's balance by credit - debit against the
\* previous record and leaves every other account's balance as it was.
C4_TrackedMutation ==
    Loaded =>
        \A i \in 1..Len(data) :
            (~IsReset(i) /\ Account(i) \in BankSet) =>
                \A b \in BankSet :
                    data[i][b] =
                        IF b = Account(i)
                        THEN Prev(i, b) + AmountAt(i, ColCredit) - AmountAt(i, ColDebit)
                        ELSE Prev(i, b)

C4_Witness ==
    /\ Loaded
    /\ Len(data) >= 2
    /\ ~IsReset(2)
    /\ Account(2) \in BankSet
    /\ AmountAt(2, ColDebit) # 0
    /\ Prev(2, Account(2)) # 0
    /\ \E b \in BankSet \ {Account(2)} : Prev(2, b) # 0

\* C5: a non-reset record whose account is not in BANK_LIST is emitted all
\* the same, with every balance and the aggregate equal to the previous
\* record's (zero for the first record).
C5_UnknownAccount ==
    Loaded =>
        /\ Len(data) = NRows
        /\ \A i \in 1..Len(data) :
              (~IsReset(i) /\ Account(i) \notin BankSet) =>
                  /\ data[i][ColKeterangan] = CellAt(i, ColKeterangan)
                  /\ \A b \in BankSet : data[i][b] = Prev(i, b)
                  /\ data[i][ColSaldo] = Prev(i, ColSaldo)

C5_Witness ==
    /\ Loaded
    /\ Len(data) >= 2
    /\ ~IsReset(2)
    /\ Account(2) \notin BankSet
    /\ AmountAt(2, ColCredit) # AmountAt(2, ColDebit)
    /\ data[1][ColSaldo] # 0
    /\ data[2][ColSaldo] = data[1][ColSaldo]

\* C6: after a load the snapshot has one record per data row of the sheet,
\* in the sheet's order, and record k has sequence number k whatever the
\* 'No.' cells hold.
C6_DenseRenumber ==
    Loaded =>
        /\ Len(data) = NRows
        /\ \A k \in 1..Len(data) :
              /\ data[k][ColNo] = k
              /\ data[k][ColKeterangan] = CellAt(k, ColKeterangan)
              /\ data[k][ColUser] = CellAt(k, ColUser)

C6_Witness ==
    /\ Loaded
    /\ Len(data) >= 2
    /\ CoerceNo(CellAt(1, ColNo)) = 7
    /\ CoerceNo(CellAt(2, ColNo)) = 0
    /\ data[1][ColNo] = 1
    /\ data[2][ColNo] = 2
    /\ CellAt(1, ColKeterangan) # CellAt(2, ColKeterangan)

-----------------------------------------------------------------------------
(* Claims about the watcher and load_data, under SpecSync and SpecCoalesce *)

\* C12: on a watcher tick whose checksum fetch succeeded, a token that differs
\* from the one last stored is stored and exactly one load_data is queued; an
\* equal token queues nothing and changes nothing but the watcher's position.
C12_TickStoresAndSchedulesOnce ==
    [][/\ (w_pc = "cmp" /\ w_cs # None /\ w_pc' # "cmp") =>
            IF w_cs # last_sheet_checksum
            THEN /\ w_pc' = "write"
                 /\ w_cs' = w_cs
            ELSE /\ w_pc' = "sleep"
                 /\ UNCHANGED <<vals, data, filtered_data, connected, last_checksum, last_sheet_checksum,
                                parity_state, parity_details_last, c_pc, ld, pending>>
       /\ (w_pc = "write" /\ w_pc' # "write") =>
            /\ last_sheet_checksum' = w_cs
            /\ pending' = pending + 1
            /\ w_pc' = "sleep"
            /\ UNCHANGED <<vals, data, filtered_data, connected, last_checksum,
                           parity_state, parity_details_last, c_pc, ld>>]_vars

\* the watcher has stored the sheet's token and its callback is still queued
C12_Witness ==
    /\ w_pc = "sleep"
    /\ pending = 1
    /\ last_sheet_checksum = compute_checksum(vals)
    /\ last_sheet_checksum # last_checksum
    /\ data # get_all_data(vals)

\* thread t is between the fetch and the swap of load_data
InRefresh(t) == ld[t].pc \in {"fetch", "setgs", "settok", "swap"}

\* C13: at most one load_data is between its fetch and its swap at any time,
\* the connect thread's included.
C13_MutualExclusion == Cardinality({t \in Threads : InRefresh(t)}) <= 1

\* the reload has returned, nothing is queued or running, and the watcher
\* holds the token of the sheet as it now is
Quiet ==
    /\ hist.done
    /\ ld["ui"].pc = "idle"
    /\ pending = 0
    /\ w_pc = "sleep"
    /\ last_sheet_checksum = compute_checksum(vals)

\* C14: when the sheet changes once during a manual reload and the watcher
\* sees the change before the reload returns, one load_data runs after the
\* reload, never a second one.
C14_OneFurtherRefresh ==
    hist.detected =>
        /\ hist.further <= 1
        /\ Quiet => hist.further = 1

\* the connect thread has ended, no load_data is running or queued, and the
\* watcher holds the token of the sheet as it now is: with the sheet fixed
\* and every fetch succeeding, no tick queues a load_data any more
Settled ==
    /\ c_pc = "done"
    /\ \A t \in Threads : ld[t].pc = "idle"
    /\ pending = 0
    /\ w_pc = "sleep"
    /\ last_sheet_checksum = compute_checksum(vals)

\* C15: no change of the sheet is lost for good; as a finite run refutes it:
\* after the sheet has changed, once the program has settled on the sheet's
\* token, which is where the watcher and the UI thread stop acting on their
\* own, the snapshot is get_all_data of the sheet.
C15_NoChangeLost == (hist.edited /\ Settled) => data = get_all_data(vals)

\* C16: while a failed row fetch or a failed checksum fetch is being handled,
\* gsheets.connected is False.
C16_FlagFalseOnFailure ==
    /\ \A t \in Threads :
          (ld[t].pc \in {"settok", "swap"} /\ ~ld[t].got.ok) => ~connected
    /\ (w_pc = "cmp" /\ w_cs = None) => ~connected

C18_FailedFetchKeepsSnapshot ==
    [][\A t \in Threads :
          (ld[t].pc = "swap" /\ ~ld[t].got.ok /\ ld'[t].pc = "pfetch") => data' = data]_vars

-----------------------------------------------------------------------------
(* Claims about check_parity_against_api, under SpecParity *)

\* the snapshot get_all_data gives for the sheet as it is
Fresh == get_all_data(vals)

\* the check ran, its fetch succeeded, and the sheet has a data row
CheckedRows == fetch = "ok" /\ Len(vals) >= 2

\* C19 as stated: with the cache equal to the recompute of the sheet's rows
\* the verdict is OK and the details are empty.
C19_OkEmptyDetails ==
    (CheckedRows /\ data = Fresh) =>
        (parity_state = "OK" /\ parity_details_last = <<>>)

\* C19 as amended: with the cache equal to the recompute of the sheet's rows
\* the verdict is OK and the details are the one message that all matches.
C19_OkAllMatchMessage ==
    (CheckedRows /\ data = Fresh) =>
        (parity_state = "OK" /\ parity_details_last = <<LineAllMatch>>)

C19_Witness ==
    /\ CheckedRows
    /\ Len(data) = 2
    /\ data = Fresh
    /\ parity_state = "OK"

\* the last value of a column, 0 for a snapshot without rows
LastOr0(df, col) == IF df = <<>> THEN 0 ELSE df[Len(df)][col]

\* the five checks, between a fresh snapshot and the cache
RowsFail(fresh) == Len(fresh) # Len(data)
CreditFail(fresh) == ColumnSum(fresh, ColCredit) # ColumnSum(data, ColCredit)
DebitFail(fresh) == ColumnSum(fresh, ColDebit) # ColumnSum(data, ColDebit)
SaldoFail(fresh) == LastOr0(fresh, ColSaldo) # LastOr0(data, ColSaldo)
BankFail(fresh, b) == LastOr0(fresh, b) # LastOr0(data, b)

FailCount(fresh) ==
    (IF RowsFail(fresh) THEN 1 ELSE 0) + (IF CreditFail(fresh) THEN 1 ELSE 0)
        + (IF DebitFail(fresh) THEN 1 ELSE 0) + (IF SaldoFail(fresh) THEN 1 ELSE 0)
        + Cardinality({b \in BankSet : BankFail(fresh, b)})

HasLine(line, bank) ==
    \E i \in 1..Len(parity_details_last) :
        parity_details_last[i].line = line /\ parity_details_last[i].bank = bank

\* the details are exactly one line for each failing check
OneLinePerFailingCheck(fresh) ==
    /\ Len(parity_details_last) = FailCount(fresh)
    /\ RowsFail(fresh) <=> HasLine("Jumlah baris berbeda", <<>>)
    /\ CreditFail(fresh) <=> HasLine("Total Credit berbeda", <<>>)
    /\ DebitFail(fresh) <=> HasLine("Total Debit berbeda", <<>>)
    /\ SaldoFail(fresh) <=> HasLine("Saldo Akhir terakhir berbeda", <<>>)
    /\ \A b \in BankSet : BankFail(fresh, b) <=> HasLine("terakhir berbeda", b)

\* C20 as stated: after a successful fetch any failing check gives Drift with
\* one line per failing check, a cache or a sheet without data rows included.
C20_DriftOnAnyDifference ==
    LET fresh == Fresh
    IN  (fetch = "ok" /\ FailCount(fresh) > 0) =>
            (parity_state = "Drift" /\ OneLinePerFailingCheck(fresh))

\* C20 as amended: for a sheet with a data row, a non-empty cache with any
\* failing check gives Drift with one line per failing check, an empty cache
\* gives Drift with the row-count line alone; a sheet without data rows gives
\* Unknown.
C20_DriftWhenBothHaveRows ==
    LET fresh == Fresh
    IN  /\ (CheckedRows /\ data # <<>> /\ FailCount(fresh) > 0) =>
              (parity_state = "Drift" /\ OneLinePerFailingCheck(fresh))
        /\ (CheckedRows /\ data = <<>>) =>
              (parity_state = "Drift" /\ parity_details_last = <<LineRows(Len(fresh), 0)>>)
        /\ (fetch = "ok" /\ Len(vals) < 2) => parity_state = "Unknown"

\* total credit differs by one unit and nothing else does
C20_Witness ==
    /\ CheckedRows
    /\ ColumnSum(Fresh, ColCredit) - ColumnSum(data, ColCredit) = 1
    /\ parity_state = "Drift"
    /\ parity_details_last = <<LineCredit>>
-----------------------------------------------------------------------------
(* Claims about the errors and the writes of check_parity_against_api *)

\* the check is over
Checked == fetch # "none"

\* C21: when the fetch or the decoding raises, the verdict is Unknown and the
\* details are one message that holds the error raised.
C21_ErrorGivesUnknownWithMessage ==
    (Checked /\ (fetch = "failed" \/ GridRaises(vals))) =>
        /\ parity_state = "Unknown"
        /\ Len(parity_details_last) = 1
        /\ parity_details_last[1].line = "Gagal cek parity"
        /\ parity_details_last[1].bank =
               IF fetch = "failed" THEN ErrFetch
               ELSE IF \E i \in 2..Len(vals) : RowCreditInf = vals[i] /\
                          \A j \in 2..(i - 1) : vals[j] # RowDebitNaN
                    THEN ErrInfinity ELSE ErrNaN

\* the decoding raised on the second data row
C21_Witness ==
    /\ fetch = "ok"
    /\ Len(vals) = 3
    /\ ~DecodeRaises(vals[1], vals[2])
    /\ DecodeRaises(vals[1], vals[3])
    /\ parity_state = "Unknown"
    /\ parity_details_last = <<LineFailed(ErrNaN)>>

\* C22: a parity check leaves the cached snapshot, the filtered view, the
\* checksum tokens and the sheet as they were, whatever its verdict.
C22_ParityWritesOnlyVerdict ==
    [][fetch' # fetch =>
          UNCHANGED <<data, filtered_data, last_sheet_checksum, last_checksum, vals>>]_vars

\* a check that found the cache different from the source, and left it so
C22_Witness ==
    /\ fetch = "ok"
    /\ parity_state = "Drift"
    /\ data # get_all_data(vals)
    /\ filtered_data = data

\* C28: a verdict of OK means that the cached snapshot equals, record by
\* record, the snapshot recomputed from the rows the check fetched.
C28_OkMeansEqualSnapshots ==
    (fetch = "ok" /\ parity_state = "OK") => data = get_all_data(vals)

-----------------------------------------------------------------------------
(* Claims about the amounts of the snapshot, under SpecLedger *)

\* C26: every record of the cached snapshot has credit >= 0 and debit >= 0.
C26_CreditDebitNonNegative ==
    \A k \in 1..Len(data) : data[k][ColCredit] >= 0 /\ data[k][ColDebit] >= 0

-----------------------------------------------------------------------------
(* Claims about the snapshot as its readers see it, under SpecBackground *)

\* the complete outputs of get_all_data: of each content, and the empty frame
WholeSnapshots == {<<>>} \cup {get_all_data(g) : g \in BackgroundContents}

\* C23: the cached snapshot, the filtered view and what the background thread
\* read are each a complete output of one recompute, never a mixture of rows.
C23_ReaderSeesWholeSnapshot ==
    /\ data \in WholeSnapshots
    /\ filtered_data \in WholeSnapshots
    /\ bak.seen \in WholeSnapshots

\* the background thread holds the complete previous snapshot while the
\* cache already is the complete new one
C23_Witness ==
    /\ bak.pc = "backup"
    /\ bak.seen = get_all_data(ContentOld)
    /\ data = get_all_data(ContentNew)

-----------------------------------------------------------------------------
(* Claims about a failed refresh and the token, under SpecRetry and *)
(* SpecAfterLoad                                                    *)

\* C27: a refresh whose fetch failed is made good at the next watcher tick;
\* as a finite run refutes it: once that refresh has returned and a whole
\* tick after it has fetched the unchanged sheet successfully, with no
\* load_data running or queued, the snapshot is get_all_data of the sheet.
C27_RetriedAtNextTick ==
    (hist.retry = "ticked" /\ ld["ui"].pc = "idle" /\ pending = 0) =>
        data = get_all_data(vals)

\* C29: whenever no load_data is running or queued, the token last stored is
\* the checksum of the content from which the snapshot was recomputed.
C29_TokenIsChecksumOfSnapshotSource ==
    (\A t \in Threads : ld[t].pc = "idle") /\ pending = 0 /\ w_pc # "write" =>
        \E g \in SyncContents :
            /\ last_sheet_checksum = compute_checksum(g)
            /\ data = get_all_data(g)

\* C24: a write handler whose call of append_data succeeded goes on into
\* load_data once its calls of append_data are made, and a handler that has
\* returned after a call of append_data failed has reported an error, never
\* success
C24_AppendIsRefreshedAndFailureReported ==
    /\ wr.op \in {"save", "save_bal", "transfer"}
          /\ (\E i \in 1..Len(wr.appends) : wr.appends[i].ok)
          => wr.appends[Len(wr.appends)].next = "load_data"
    /\ wr.pc = "done" /\ (\E i \in 1..Len(wr.appends) : ~wr.appends[i].ok)
          => wr.report = "error"

\* C25: a call of append_data with a row whose number of fields is not the
\* number of columns of HEADERS fails and leaves the sheet as it was
C25_WrongLengthRowIsRefused ==
    wr.op = "append_data" /\ wr.nfields # Len(HEADERS)
       => ~wr.appends[1].ok /\ vals = wr.before

\* Saldo Akhir of the last record
LastSaldo(df) == IF df = <<>> THEN 0 ELSE df[Len(df)][ColSaldo]

\* the aggregate balance of the ledger recomputed from a grid
AggregateBalance(grid) == LastSaldo(get_all_data(grid))

\* C30: after do_transfer has called append_data, the sheet holds both rows
\* of the transfer or neither, and the aggregate balance of the recomputed
\* ledger is what it was before the transfer
C30_TransferAllOrNothing ==
    wr.op = "transfer" /\ wr.appends # <<>>
       => /\ wr.appends[1].ok = wr.appends[2].ok
          /\ AggregateBalance(vals) = AggregateBalance(wr.before)

====
